---- MODULE Spec2Model ----
(***************************************************************************)
(* A model of the MySQLdb wrappers of this repository:                     *)
(*   - lsst.db.db.Db        (python/lsst/db/db.py)                         *)
(*   - lsst.dbserv.db.Db    (python/lsst/dbserv/db.py)                     *)
(*   - lsst.db.dbPool.DbPool (python/lsst/db/dbPool.py)                     *)
(*   - lsst.db.testHelper   (python/lsst/db/testHelper.py)                  *)
(*                                                                         *)
(* A method of the wrapper is an operator from a machine record m to the   *)
(* SET of machine records it can end in: the driver (MySQLdb) and the      *)
(* server are the environment, and every driver call may end in more than  *)
(* one way.  m.exc is the pending Python exception, m.ret the value        *)
(* returned, m.trace the driver calls made so far in the current call.     *)
(* One action of the specification is one whole call of a public method.   *)
(***************************************************************************)
EXTENDS Integers, Sequences, FiniteSets, TLC

VARIABLES db,      \* the lsst.db.db.Db instance (NoInstance when none was built)
          sdb,     \* the lsst.dbserv.db.Db instance (NoInstance when none was built)
          srv,     \* the MySQL server: up, databases, tables, client connections
          budget,  \* driver faults the environment may inject into one call
          pool,    \* the DbPool instance: its entries by name
          now,     \* the clock, what time() returns
          obs      \* what the caller observed of the last call

vars == <<db, sdb, srv, budget, pool, now, obs>>

----------------------------------------------------------------------------
(* Bounds of the model. *)

MaxRetryCount == 2   \* largest maxRetryCount an instance is built with
MaxFaults == 3       \* driver faults injected into one call, at most
MaxTicks == 2        \* seconds the clock advances in a run, at most

DbNames == {"A", "B"}
TbNames == {"t"}
None == "None"
DbArgs == DbNames \cup {None}
(* A port argument: None, or a number around the two ends of the range. *)
MinPort == 1
MaxPort == 65535
NoPort == [given |-> FALSE, value |-> 0]
Port(v) == [given |-> TRUE, value |-> v]
PortArgs == {NoPort} \cup {Port(v) : v \in {MinPort - 1, MinPort, MaxPort, MaxPort + 1}}
(* A key that a dictionary does not have. *)
Absent == "absent"
(* The host names a caller (or an option file) gives. *)
localhost == "localhost"
loopback == "127.0.0.1"
HostArgs == {None, localhost, "h"}

(* The option file named by the optionFile argument: whether the argument   *)
(* was given, whether the path is a file, whether the file has the section  *)
(* [client], and the options of that section.  The values of a file are     *)
(* text: the port is a sequence of decimal digits.                          *)
OptionFile(isfile, client, socket, host, port, user, password) ==
    [given |-> TRUE, isfile |-> isfile, client |-> client, socket |-> socket,
     host |-> host, port |-> port, user |-> user, password |-> password]
NoOptions(given, isfile, client) ==
    [OptionFile(isfile, client, Absent, Absent, <<>>, Absent, Absent)
       EXCEPT !.given = given]
NoOptionFile == NoOptions(FALSE, FALSE, FALSE)
PortTexts == {<<>>, <<2>>, <<6, 5, 5, 3, 7>>}
OptionFiles ==
    {NoOptionFile, NoOptions(TRUE, FALSE, FALSE), NoOptions(TRUE, TRUE, FALSE)}
    \cup { OptionFile(TRUE, TRUE, s, h, p, u, pw) :
             s \in {Absent, "fs"}, h \in {Absent, localhost, "fh"}, p \in PortTexts,
             u \in {Absent, "fu"}, pw \in {Absent, "fp"} }

(* int(text) of a sequence of decimal digits. *)
RECURSIVE int(_)
int(s) == IF s = <<>> THEN 0 ELSE 10 * int(SubSeq(s, 1, Len(s) - 1)) + s[Len(s)]

----------------------------------------------------------------------------
(* DbException error codes, lsst.db.db.DbException. *)

CANT_CONNECT_TO_DB == 1500
DB_EXISTS == 1510
DB_DOES_NOT_EXIST == 1515
INVALID_DB_NAME == 1520
INVALID_OPT_FILE == 1522
MISSING_CON_INFO == 1525
SERVER_CONNECT == 1530
SERVER_DISCONN == 1535
SERVER_ERROR == 1540
NOT_CONNECTED == 1550
TB_DOES_NOT_EXIST == 1555
TB_EXISTS == 1560
INTERNAL == 9999

(* MySQL error numbers the wrapper is sensitive to (Db.__init__). *)
_mysqlConnErrors == {2002, 2003, 2006, 2013}
_mysqlDbExistError == 1007
_mysqlDbDoesNotExistError == 1008
_mysqlTbExistError == 1050
_mysqlTbDoesNotExistError == 1051

(* MySQL error numbers the server and the driver answer with. *)
CR_CONNECTION == 2002
CR_CONN_HOST == 2003
CR_SERVER_GONE == 2006
CR_SERVER_LOST == 2013
ServerError == [ACCESS_DENIED |-> 1045, BAD_DB |-> 1049, NO_SUCH_TABLE |-> 1146]
ER_ACCESS_DENIED == ServerError.ACCESS_DENIED
ER_BAD_DB == ServerError.BAD_DB
ER_NO_SUCH_TABLE == ServerError.NO_SUCH_TABLE

(* The faults the environment injects: into a connect, and into a call on  *)
(* an established connection.                                              *)
ConnectFaults == {CR_CONN_HOST, ER_ACCESS_DENIED}
CommandFaults == {CR_SERVER_GONE, ER_ACCESS_DENIED}

----------------------------------------------------------------------------
(* Exceptions. *)

NoExc == [kind |-> "none", code |-> 0, detail |-> 0]
DbException(code, detail) == [kind |-> "DbException", code |-> code, detail |-> detail]
MySQLdbError(code) == [kind |-> "MySQLdb.Error", code |-> code, detail |-> code]

Ok(m) == m.exc.kind = "none"
Raise(m, e) == [m EXCEPT !.exc = e]
Return(m, v) == [m EXCEPT !.ret = v]
Caught(m) == [m EXCEPT !.exc = NoExc]
NoArg == "-"
Cmd(kind, d, t) == [kind |-> kind, db |-> d, tb |-> t]
NoCmd == Cmd(NoArg, NoArg, NoArg)
(* A driver call and the MySQL error number it ended with (0: none). *)
Event(call, code, cmd) == [call |-> call, code |-> code, cmd |-> cmd]
LogCmd(m, call, code, cmd) == [m EXCEPT !.trace = Append(@, Event(call, code, cmd))]
Log(m, call, code) == LogCmd(m, call, code, NoCmd)

(* Sequencing: F runs on the outcomes of S that raised nothing. *)
Then(S, F(_)) == UNION { IF Ok(m) THEN F(m) ELSE {m} : m \in S }
(* try: S except MySQLdb.Error: H *)
ExceptMySQLdb(S, H(_)) ==
    UNION { IF m.exc.kind = "MySQLdb.Error" THEN H(m) ELSE {m} : m \in S }
(* try: S except DbException: H *)
ExceptDbException(S, H(_)) ==
    UNION { IF m.exc.kind = "DbException" THEN H(m) ELSE {m} : m \in S }

----------------------------------------------------------------------------
(* The driver: a connection object, and the calls made on it. *)

NoneConn == [none |-> TRUE, open |-> FALSE, alive |-> FALSE, sel |-> None]
NewConn == [none |-> FALSE, open |-> TRUE, alive |-> TRUE, sel |-> None]

InjectCmd(m, call, codes, cmd) ==
    IF m.budget > 0
    THEN { [Raise(LogCmd(m, call, c, cmd), MySQLdbError(c)) EXCEPT !.budget = @ - 1] :
             c \in codes }
    ELSE {}
Inject(m, call, codes) == InjectCmd(m, call, codes, NoCmd)

(* The arguments of a MySQLdb.connect that tell where it connects to. *)
ConnectArgs(host, unix_socket) ==
    [kind |-> "connect", host |-> host, unix_socket |-> unix_socket]

(* MySQLdb.connect: the new connection lands in the local variable conn of *)
(* _tryConnect, m.local.                                                   *)
MySQLdb_connect(m) ==
    LET args == ConnectArgs(m.db.kwargs.host, m.db.kwargs.unix_socket)
    IN  IF ~m.srv.up
        THEN { Raise(LogCmd(m, "connect", CR_CONNECTION, args), MySQLdbError(CR_CONNECTION)) }
        ELSE { [LogCmd(m, "connect", 0, args) EXCEPT !.local = NewConn, !.srv.open = @ + 1] }
             \cup InjectCmd(m, "connect", ConnectFaults, args)

(* conn.select_db(dbName) on the connection c; Put stores the connection back. *)
select_db(m, c, dbName, Put(_, _)) ==
    IF ~c.alive
    THEN { Raise(Log(m, "select_db", CR_SERVER_GONE), MySQLdbError(CR_SERVER_GONE)) }
    ELSE (IF dbName \in m.srv.dbs
          THEN { Put(Log(m, "select_db", 0), [c EXCEPT !.sel = dbName]) }
          ELSE { Raise(Log(m, "select_db", ER_BAD_DB), MySQLdbError(ER_BAD_DB)) })
         \cup Inject(m, "select_db", CommandFaults)

(* conn.ping() *)
ping(m) ==
    IF ~m.db.conn.alive
    THEN { Raise(Log(m, "ping", CR_SERVER_GONE), MySQLdbError(CR_SERVER_GONE)) }
    ELSE { Log(m, "ping", 0) } \cup Inject(m, "ping", CommandFaults)

(* conn.close(): closing an open connection does not fail. *)
close(m, c) == [Log(m, "close", 0) EXCEPT !.srv.open = @ - 1]

(* time.sleep(sleepLen) *)
sleep(m) == Log(m, "sleep", 0)

(* What the server does with a command on a live connection c:             *)
(* [srv, conn, err, row], err = 0 when the command succeeded.              *)
Count(b) == IF b THEN "1" ELSE "0"
Answer(s, c, err, row) == [srv |-> s, conn |-> c, err |-> err, row |-> row]

ServerExec(s, c, cmd) ==
    CASE cmd.kind = "CREATE DATABASE" ->
           IF cmd.db \in s.dbs THEN Answer(s, c, _mysqlDbExistError, None)
           ELSE Answer([s EXCEPT !.dbs = @ \cup {cmd.db}], c, 0, None)
      [] cmd.kind = "DROP DATABASE" ->
           IF cmd.db \notin s.dbs THEN Answer(s, c, _mysqlDbDoesNotExistError, None)
           ELSE Answer([s EXCEPT !.dbs = @ \ {cmd.db},
                                 !.tables = {x \in @ : x[1] # cmd.db},
                                 !.views = {x \in @ : x[1] # cmd.db}],
                       [c EXCEPT !.sel = IF @ = cmd.db THEN None ELSE @], 0, None)
      [] cmd.kind = "CREATE TABLE" ->
           IF cmd.db \notin s.dbs THEN Answer(s, c, ER_BAD_DB, None)
           ELSE IF <<cmd.db, cmd.tb>> \in s.tables
                THEN Answer(s, c, _mysqlTbExistError, None)
                ELSE Answer([s EXCEPT !.tables = @ \cup {<<cmd.db, cmd.tb>>}], c, 0, None)
      [] cmd.kind = "CREATE VIEW" ->
           IF cmd.db \notin s.dbs THEN Answer(s, c, ER_BAD_DB, None)
           ELSE IF <<cmd.db, cmd.tb>> \in s.tables
                THEN Answer(s, c, _mysqlTbExistError, None)
                ELSE Answer([s EXCEPT !.tables = @ \cup {<<cmd.db, cmd.tb>>},
                                      !.views = @ \cup {<<cmd.db, cmd.tb>>}], c, 0, None)
      [] cmd.kind = "DROP TABLE" ->
           IF <<cmd.db, cmd.tb>> \notin s.tables \/ <<cmd.db, cmd.tb>> \in s.views
           THEN Answer(s, c, _mysqlTbDoesNotExistError, None)
           ELSE Answer([s EXCEPT !.tables = @ \ {<<cmd.db, cmd.tb>>}], c, 0, None)
      [] cmd.kind = "SELECT DATABASE()" -> Answer(s, c, 0, c.sel)
      [] cmd.kind = "COUNT schemata" -> Answer(s, c, 0, Count(cmd.db \in s.dbs))
      [] cmd.kind = "COUNT tables" ->
           Answer(s, c, 0, Count(<<cmd.db, cmd.tb>> \in s.tables))
      [] cmd.kind = "COUNT views" ->
           Answer(s, c, 0, Count(<<cmd.db, cmd.tb>> \in s.views))
      [] cmd.kind = "SELECT *" ->
           IF <<cmd.db, cmd.tb>> \in s.tables THEN Answer(s, c, 0, "rows")
           ELSE Answer(s, c, ER_NO_SUCH_TABLE, None)

(* cursor.execute(command) on the connection c; the row it leaves in the    *)
(* cursor is m.row.                                                        *)
execute(m, c, cmd, Put(_, _)) ==
    IF ~c.alive
    THEN { Raise(LogCmd(m, "execute", CR_SERVER_GONE, cmd), MySQLdbError(CR_SERVER_GONE)) }
    ELSE LET a == ServerExec(m.srv, c, cmd)
         IN  { IF a.err = 0
               THEN [Put(LogCmd(m, "execute", 0, cmd), a.conn)
                       EXCEPT !.srv = a.srv, !.row = a.row]
               ELSE Raise(LogCmd(m, "execute", a.err, cmd), MySQLdbError(a.err)) }
             \cup { [Raise(LogCmd(m, "execute", f, cmd), MySQLdbError(f))
                       EXCEPT !.budget = @ - 1]
                    : f \in IF m.budget > 0 THEN CommandFaults ELSE {} }

----------------------------------------------------------------------------
(* lsst.db.db.Db *)

PutConn(m, c) == [m EXCEPT !.db.conn = c]
PutLocal(m, c) == [m EXCEPT !.local = c]

(* The keyword arguments of MySQLdb.connect that Db.__init__ collects in     *)
(* self._kwargs (Absent: the key is not there).                             *)
Kwargs(host, port, unix_socket, user, passwd, read_default_file) ==
    [host |-> host, port |-> port, unix_socket |-> unix_socket, user |-> user,
     passwd |-> passwd, read_default_file |-> read_default_file]

(* Db.__init__: the state of a new instance, here one built as              *)
(* Db(user, passwd, socket=...).                                           *)
NewDb(maxRetryCount) ==
    [conn |-> NoneConn, isConnectedToDb |-> FALSE,
     attemptMaxNo |-> 1 + maxRetryCount, attemptNo |-> 1,
     connProt |-> "socket", kwargs |-> Kwargs(Absent, NoPort, "s", "u", "p", FALSE)]

(* Db._parseOptionFile, on a path that is a file: the options of the        *)
(* section [client], none when the file has no such section.                *)
_parseOptionFile(f) ==
    IF f.client
    THEN [socket |-> f.socket, host |-> f.host, port |-> f.port, user |-> f.user,
          password |-> f.password]
    ELSE [socket |-> Absent, host |-> Absent, port |-> <<>>, user |-> Absent,
          password |-> Absent]

(* Mutant: the socket given is kept also when host and port were taken. *)
ConnectionInfo_socketKept(a) ==
    LET f == a.optionFile
        ret == _parseOptionFile(f)
        tcp == a.host # None /\ a.port.given /\ (a.preferTcp \/ a.socket = None)
        sock == a.socket # None
        undecided == f.given /\ ~tcp /\ ~sock
        ftcp == /\ undecided
                /\ ret.host # Absent /\ ret.port # <<>>
                /\ a.preferTcp \/ ret.socket = Absent
        fsock == undecided /\ ~ftcp /\ ret.socket # Absent
        fuser == f.given /\ ret.user # Absent /\ a.user = None
    IN  [connProt |-> IF sock \/ fsock THEN "socket"
                      ELSE IF tcp \/ ftcp THEN "tcp" ELSE None,
         kwargs |-> Kwargs(
           IF tcp THEN a.host ELSE IF ftcp THEN ret.host ELSE Absent,
           IF tcp THEN a.port ELSE IF ftcp THEN Port(int(ret.port)) ELSE NoPort,
           IF sock THEN a.socket ELSE IF fsock THEN ret.socket ELSE Absent,
           IF a.user # None THEN a.user ELSE IF fuser THEN ret.user ELSE Absent,
           IF a.user # None THEN a.passwd
           ELSE IF fuser /\ ret.password # Absent THEN ret.password ELSE Absent,
           f.given)]

(* Db.__init__, the transport and the keyword arguments it settles on from  *)
(* the arguments a and the option file, before the final validation.        *)
ConnectionInfo(a) ==
    LET f == a.optionFile
        ret == _parseOptionFile(f)
        tcp == a.host # None /\ a.port.given /\ (a.preferTcp \/ a.socket = None)
        sock == ~tcp /\ a.socket # None
        undecided == f.given /\ ~tcp /\ ~sock
        ftcp == /\ undecided
                /\ ret.host # Absent /\ ret.port # <<>>
                /\ a.preferTcp \/ ret.socket = Absent
        fsock == undecided /\ ~ftcp /\ ret.socket # Absent
        fuser == f.given /\ ret.user # Absent /\ a.user = None
    IN  [connProt |-> IF tcp \/ ftcp THEN "tcp"
                      ELSE IF sock \/ fsock THEN "socket" ELSE None,
         kwargs |-> Kwargs(
           IF tcp THEN a.host ELSE IF ftcp THEN ret.host ELSE Absent,
           IF tcp THEN a.port ELSE IF ftcp THEN Port(int(ret.port)) ELSE NoPort,
           IF sock THEN a.socket ELSE IF fsock THEN ret.socket ELSE Absent,
           IF a.user # None THEN a.user ELSE IF fuser THEN ret.user ELSE Absent,
           IF a.user # None THEN a.passwd
           ELSE IF fuser /\ ret.password # Absent THEN ret.password ELSE Absent,
           f.given)]

(* Mutant: the port of the TCP transport is not validated. *)
Db__init___portUnchecked(m, a, maxRetryCount) ==
    LET c == ConnectionInfo(a)
        host == IF c.kwargs.host = localhost THEN loopback ELSE c.kwargs.host
    IN  IF a.optionFile.given /\ ~a.optionFile.isfile
        THEN Raise(m, DbException(INVALID_OPT_FILE, 0))
        ELSE IF c.connProt = None \/ c.kwargs.user = Absent
        THEN Raise(m, DbException(MISSING_CON_INFO, 0))
        ELSE [m EXCEPT !.db = [NewDb(maxRetryCount) EXCEPT
                                 !.connProt = c.connProt,
                                 !.kwargs = [c.kwargs EXCEPT !.host = host]]]

(* Mutant: the host is kept as it was given. *)
Db__init___hostKept(m, a, maxRetryCount) ==
    LET c == ConnectionInfo(a)
    IN  IF a.optionFile.given /\ ~a.optionFile.isfile
        THEN Raise(m, DbException(INVALID_OPT_FILE, 0))
        ELSE IF c.connProt = None \/ c.kwargs.user = Absent
        THEN Raise(m, DbException(MISSING_CON_INFO, 0))
        ELSE IF c.kwargs.port.given
                /\ (c.kwargs.port.value < MinPort \/ c.kwargs.port.value > MaxPort)
        THEN Raise(m, DbException(MISSING_CON_INFO, 0))
        ELSE [m EXCEPT !.db = [NewDb(maxRetryCount) EXCEPT
                                 !.connProt = c.connProt, !.kwargs = c.kwargs]]

(* Db.__init__(user, passwd, host, port, socket, optionFile, preferTcp=...), *)
(* the arguments in the record a (None: not given).  A missing option file  *)
(* is found when it is parsed, before anything is validated.               *)
Db__init__(m, a, maxRetryCount) ==
    LET c == ConnectionInfo(a)
        host == IF c.kwargs.host = localhost THEN loopback ELSE c.kwargs.host
    IN  IF a.optionFile.given /\ ~a.optionFile.isfile
        THEN Raise(m, DbException(INVALID_OPT_FILE, 0))
        ELSE IF c.connProt = None THEN Raise(m, DbException(MISSING_CON_INFO, 0))
        ELSE IF c.kwargs.user = Absent THEN Raise(m, DbException(MISSING_CON_INFO, 0))
        ELSE IF c.kwargs.port.given
                /\ (c.kwargs.port.value < MinPort \/ c.kwargs.port.value > MaxPort)
        THEN Raise(m, DbException(MISSING_CON_INFO, 0))
        ELSE [m EXCEPT !.db = [NewDb(maxRetryCount) EXCEPT
                                 !.connProt = c.connProt,
                                 !.kwargs = [c.kwargs EXCEPT !.host = host]]]

checkIsConnected(m) == ~m.db.conn.none /\ m.db.conn.open

_closeConnection(m) ==
    IF m.db.conn.none THEN m
    ELSE [close(m, m.db.conn) EXCEPT !.db.conn = NoneConn]

(* Mutant: the guard tests _isConnectedToDb instead of the connection. *)
disconnect_guardsOnDbFlag(m) ==
    IF ~m.db.isConnectedToDb THEN m
    ELSE [_closeConnection(m) EXCEPT !.db.conn = NoneConn, !.db.isConnectedToDb = FALSE]

disconnect(m) ==
    IF ~checkIsConnected(m) THEN m
    ELSE [_closeConnection(m) EXCEPT !.db.conn = NoneConn, !.db.isConnectedToDb = FALSE]

(* Mutant: the connection that was not kept is dropped without close(). *)
Finally_tryConnect_unclosed(m) == [m EXCEPT !.local = NoneConn]

(* _tryConnect: m.ret is "True" or "False"; the finally clause closes a     *)
(* connection that was opened and not kept.                                *)
Finally_tryConnect(m) ==
    IF m.local.none THEN m ELSE [close(m, m.local) EXCEPT !.local = NoneConn]

(* Mutant: the retry test is attemptNo <= attemptMaxNo. *)
_tryConnect_offByOne(m, dbName) ==
    LET opened == MySQLdb_connect(m)
        tried == Then(opened, LAMBDA a:
                   IF dbName # None THEN select_db(a, a.local, dbName, PutLocal) ELSE {a})
    IN  { IF e.exc.kind = "MySQLdb.Error"
          THEN IF e.exc.code \in _mysqlConnErrors
                  /\ (e.db.attemptNo <= e.db.attemptMaxNo \/ e.db.attemptMaxNo = 1)
               THEN Finally_tryConnect(Return(Caught(e), "False"))
               ELSE Finally_tryConnect(Raise(e, DbException(SERVER_CONNECT, e.exc.code)))
          ELSE Return([e EXCEPT !.db.conn = e.local, !.local = NoneConn], "True")
        : e \in tried }

(* Mutant: every driver error is taken for a recoverable one. *)
_tryConnect_retriesAll(m, dbName) ==
    LET opened == MySQLdb_connect(m)
        tried == Then(opened, LAMBDA a:
                   IF dbName # None THEN select_db(a, a.local, dbName, PutLocal) ELSE {a})
    IN  { IF e.exc.kind = "MySQLdb.Error"
          THEN IF e.db.attemptNo < e.db.attemptMaxNo \/ e.db.attemptMaxNo = 1
               THEN Finally_tryConnect(Return(Caught(e), "False"))
               ELSE Finally_tryConnect(Raise(e, DbException(SERVER_CONNECT, e.exc.code)))
          ELSE Return([e EXCEPT !.db.conn = e.local, !.local = NoneConn], "True")
        : e \in tried }

_tryConnect(m, dbName) ==
    LET opened == MySQLdb_connect(m)
        tried == Then(opened, LAMBDA a:
                   IF dbName # None THEN select_db(a, a.local, dbName, PutLocal) ELSE {a})
    IN  { IF e.exc.kind = "MySQLdb.Error"
          THEN IF e.exc.code \in _mysqlConnErrors
                  /\ (e.db.attemptNo < e.db.attemptMaxNo \/ e.db.attemptMaxNo = 1)
               THEN Finally_tryConnect(Return(Caught(e), "False"))
               ELSE Finally_tryConnect(Raise(e, DbException(SERVER_CONNECT, e.exc.code)))
          ELSE Return([e EXCEPT !.db.conn = e.local, !.local = NoneConn], "True")
        : e \in tried }

(* Mutant: the attempt number is not incremented before the next attempt. *)
RECURSIVE connect_sameAttempt(_, _)
connect_sameAttempt(m, dbName) ==
    IF checkIsConnected(m) THEN {m}
    ELSE UNION { IF ~Ok(r) THEN {r}
                 ELSE IF r.ret = "True" THEN {[r EXCEPT !.db.attemptNo = 1]}
                 ELSE IF r.db.attemptMaxNo = 1
                      THEN {Raise(r, DbException(SERVER_CONNECT, 0))}
                      ELSE connect_sameAttempt(sleep(r), dbName)
               : r \in _tryConnect(m, dbName) }

RECURSIVE connect(_, _)
connect(m, dbName) ==
    IF checkIsConnected(m) THEN {m}
    ELSE UNION { IF ~Ok(r) THEN {r}
                 ELSE IF r.ret = "True" THEN {[r EXCEPT !.db.attemptNo = 1]}
                 ELSE IF r.db.attemptMaxNo = 1
                      THEN {Raise(r, DbException(SERVER_CONNECT, 0))}
                      ELSE connect(sleep([r EXCEPT !.db.attemptNo = @ + 1]), dbName)
               : r \in _tryConnect(m, dbName) }

(* Mutant: error 1008 is not told apart. *)
Classify_without1008(code) ==
    CASE code = _mysqlDbExistError -> DB_EXISTS
      [] code = _mysqlTbExistError -> TB_EXISTS
      [] code = _mysqlTbDoesNotExistError -> TB_DOES_NOT_EXIST
      [] OTHER -> SERVER_ERROR

(* Mutant: an error number with no DbException code of its own is passed  *)
(* on as it is.                                                            *)
Classify_passesOn(code) ==
    CASE code = _mysqlDbExistError -> DB_EXISTS
      [] code = _mysqlDbDoesNotExistError -> DB_DOES_NOT_EXIST
      [] code = _mysqlTbExistError -> TB_EXISTS
      [] code = _mysqlTbDoesNotExistError -> TB_DOES_NOT_EXIST
      [] OTHER -> code

(* Mutant: error 1050 is reported as an existing database. *)
Classify_tableAsDb(code) ==
    CASE code = _mysqlDbExistError -> DB_EXISTS
      [] code = _mysqlDbDoesNotExistError -> DB_DOES_NOT_EXIST
      [] code = _mysqlTbExistError -> DB_EXISTS
      [] code = _mysqlTbDoesNotExistError -> TB_DOES_NOT_EXIST
      [] OTHER -> SERVER_ERROR

(* The except clauses of _execCommand around cursor.execute. *)
Classify(code) ==
    CASE code = _mysqlDbExistError -> DB_EXISTS
      [] code = _mysqlDbDoesNotExistError -> DB_DOES_NOT_EXIST
      [] code = _mysqlTbExistError -> TB_EXISTS
      [] code = _mysqlTbDoesNotExistError -> TB_DOES_NOT_EXIST
      [] OTHER -> SERVER_ERROR

(* The ping and the reconnect that open _execCommand. *)
PingAndReconnect(m) ==
    ExceptMySQLdb(ping(m), LAMBDA p:
        IF p.exc.code \in _mysqlConnErrors
        THEN connect(disconnect(Caught(p)), None)
        ELSE {Caught(p)})

_execCommand(m, command, nRowsRet) ==
    LET ready == Then(connect(m, None), PingAndReconnect)
        done == Then(ready, LAMBDA a:
                  ExceptMySQLdb(execute(a, a.db.conn, command, PutConn), LAMBDA e:
                      {Raise(e, DbException(Classify(e.exc.code), e.exc.code))}))
    IN  Then(done, LAMBDA a: {Return(a, IF nRowsRet = 0 THEN "" ELSE a.row)})

execCommand0(m, command) == Then(_execCommand(m, command, 0), LAMBDA a: {Return(a, None)})
execCommand1(m, command) == _execCommand(m, command, 1)
execCommandN(m, command) == _execCommand(m, command, 2)

getCurrentDbName(m) ==
    Then(connect(m, None), LAMBDA a: execCommand1(a, Cmd("SELECT DATABASE()", None, None)))

(* Mutant: the current database is returned without the None test. *)
_getCurrentDbNameIfNeeded_unchecked(m, dbName) ==
    IF dbName # None THEN {Return(m, dbName)} ELSE getCurrentDbName(m)

_getCurrentDbNameIfNeeded(m, dbName) ==
    IF dbName # None THEN {Return(m, dbName)}
    ELSE Then(getCurrentDbName(m), LAMBDA a:
           IF a.ret = None THEN {Raise(a, DbException(INVALID_DB_NAME, 0))} ELSE {a})

(* Mutant: a selection that fails ends the session. *)
useDb_dropsSession(m, dbName) ==
    Then(getCurrentDbName(m), LAMBDA g:
      IF g.ret # None /\ g.ret = dbName THEN {Return(g, None)}
      ELSE Then(ExceptMySQLdb(IF ~checkIsConnected(g) THEN connect(g, dbName)
                              ELSE select_db(g, g.db.conn, dbName, PutConn),
                              LAMBDA e: {Raise(disconnect(e), DbException(CANT_CONNECT_TO_DB, 0))}),
                LAMBDA a: {Return([a EXCEPT !.db.isConnectedToDb = TRUE], None)}))

useDb(m, dbName) ==
    Then(getCurrentDbName(m), LAMBDA g:
      IF g.ret # None /\ g.ret = dbName THEN {Return(g, None)}
      ELSE Then(ExceptMySQLdb(IF ~checkIsConnected(g) THEN connect(g, dbName)
                              ELSE select_db(g, g.db.conn, dbName, PutConn),
                              LAMBDA e: {Raise(e, DbException(CANT_CONNECT_TO_DB, 0))}),
                LAMBDA a: {Return([a EXCEPT !.db.isConnectedToDb = TRUE], None)}))

(* try: execCommand0(command) except DbException: pass if it is the         *)
(* tolerated code and the flag allows it, else raise.                      *)
Tolerate(S, code, tolerated) ==
    ExceptDbException(S, LAMBDA e:
        IF e.exc.code = code /\ tolerated THEN {Return(Caught(e), None)} ELSE {e})

(* Mutant: mayExist is ignored. *)
createDb_ignoresMayExist(m, dbName, mayExist) ==
    IF dbName = None THEN {Raise(m, DbException(INVALID_DB_NAME, 0))}
    ELSE Then(connect(m, None), LAMBDA a:
           execCommand0(a, Cmd("CREATE DATABASE", dbName, None)))

createDb(m, dbName, mayExist) ==
    IF dbName = None THEN {Raise(m, DbException(INVALID_DB_NAME, 0))}
    ELSE Then(connect(m, None), LAMBDA a:
           Tolerate(execCommand0(a, Cmd("CREATE DATABASE", dbName, None)),
                    DB_EXISTS, mayExist))

checkDbExists(m, dbName) ==
    IF dbName = None THEN {Return(m, "False")}
    ELSE Then(connect(m, None), LAMBDA a:
           Then(execCommand1(a, Cmd("COUNT schemata", dbName, None)), LAMBDA c:
             {Return(c, IF c.ret = "1" THEN "True" ELSE "False")}))

(* Mutant: the session is ended whichever database was dropped. *)
dropDb_endsSession(m, dbName, mustExist) ==
    Then(connect(m, None), LAMBDA a:
      Then(getCurrentDbName(a), LAMBDA g:
        Then(Tolerate(execCommand0(g, Cmd("DROP DATABASE", dbName, None)),
                      DB_DOES_NOT_EXIST, ~mustExist),
             LAMBDA d: {disconnect(d)})))

(* Mutant: the session is kept when the current database is dropped. *)
dropDb_keepsSession(m, dbName, mustExist) ==
    Then(connect(m, None), LAMBDA a:
      Then(getCurrentDbName(a), LAMBDA g:
        Tolerate(execCommand0(g, Cmd("DROP DATABASE", dbName, None)),
                 DB_DOES_NOT_EXIST, ~mustExist)))

dropDb(m, dbName, mustExist) ==
    Then(connect(m, None), LAMBDA a:
      Then(getCurrentDbName(a), LAMBDA g:
        LET cDb == g.ret
        IN  Then(Tolerate(execCommand0(g, Cmd("DROP DATABASE", dbName, None)),
                          DB_DOES_NOT_EXIST, ~mustExist),
                 LAMBDA d: {IF cDb = dbName THEN disconnect(d) ELSE d})))

(* Mutant: the dbName argument is ignored, the current database is used. *)
checkTableExists_currentOnly(m, tableName, dbName) ==
    Then(getCurrentDbName(m), LAMBDA g:
      IF g.ret = None THEN {Return(g, "False")}
      ELSE Then(execCommand1(g, Cmd("COUNT tables", g.ret, tableName)), LAMBDA c:
             {Return(c, IF c.ret = "1" THEN "True" ELSE "False")}))

checkTableExists(m, tableName, dbName) ==
    LET count(a, dn) ==
          Then(execCommand1(a, Cmd("COUNT tables", dn, tableName)), LAMBDA c:
            {Return(c, IF c.ret = "1" THEN "True" ELSE "False")})
    IN  IF dbName = None
        THEN Then(getCurrentDbName(m), LAMBDA g:
               IF g.ret = None THEN {Return(g, "False")} ELSE count(g, g.ret))
        ELSE count(m, dbName)

createTable(m, tableName, dbName, mayExist) ==
    Then(_getCurrentDbNameIfNeeded(m, dbName), LAMBDA r:
      Tolerate(execCommand0(r, Cmd("CREATE TABLE", r.ret, tableName)),
               TB_EXISTS, mayExist))

dropTable(m, tableName, dbName, mustExist) ==
    Then(_getCurrentDbNameIfNeeded(m, dbName), LAMBDA r:
      Tolerate(execCommand0(r, Cmd("DROP TABLE", r.ret, tableName)),
               TB_DOES_NOT_EXIST, ~mustExist))

isView(m, tableName, dbName) ==
    Then(_getCurrentDbNameIfNeeded(m, dbName), LAMBDA r:
      LET dn == r.ret
      IN  Then(checkTableExists(r, tableName, dn), LAMBDA c:
            IF c.ret # "True" THEN {Raise(c, DbException(TB_DOES_NOT_EXIST, 0))}
            ELSE execCommand1(c, Cmd("COUNT views", dn, tableName))))

(* Mutant: the dbName argument is used as given. *)
getTableContent_unresolved(m, tableName, dbName) ==
    execCommandN(m, Cmd("SELECT *", dbName, tableName))

getTableContent(m, tableName, dbName) ==
    Then(_getCurrentDbNameIfNeeded(m, dbName), LAMBDA r:
      execCommandN(r, Cmd("SELECT *", r.ret, tableName)))

----------------------------------------------------------------------------
(* lsst.dbserv.db.Db *)

ERR_CANT_CONNECT_TO_DB == 1500
ERR_DB_EXISTS == 1510
ERR_DB_DOES_NOT_EXIST == 1515
ERR_INVALID_DB_NAME == 1520
ERR_INVALID_OPT_FILE == 1522
ERR_MISSING_CON_INFO == 1525
ERR_MYSQL_CONNECT == 1530
ERR_MYSQL_DISCONN == 1535
ERR_MYSQL_ERROR == 1540
ERR_NOT_CONNECTED == 1550
ERR_TB_DOES_NOT_EXIST == 1555
ERR_TB_EXISTS == 1560
ERR_INTERNAL == 9999

dbserv_mysqlConnErrors == {2002, 2006}

SocketFaults == {CR_CONNECTION, ER_ACCESS_DENIED}
PortFaults == {CR_CONN_HOST, CR_SERVER_GONE, ER_ACCESS_DENIED}

PutSConn(m, c) == [m EXCEPT !.sdb.conn = c]

(* Db.__init__: socket and hostPort tell which transports the instance has  *)
(* (self._socket, and self._host with self._port, are not None).            *)
dbserv_NewDb(socket, hostPort, dbName, maxRetryCount) ==
    [conn |-> NoneConn, isConnectedToDb |-> FALSE, maxRetryCount |-> maxRetryCount,
     curRetryCount |-> 0, socket |-> socket, hostPort |-> hostPort,
     defaultDbName |-> dbName, built |-> TRUE,
     host |-> IF hostPort THEN "h" ELSE None,
     unix_socket |-> IF socket THEN "s" ELSE None]

(* Db._parseOptionFile, on a path that is a file: None for each option the  *)
(* section [client] does not give.                                         *)
dbserv_parseOptionFile(f) ==
    LET OrNone(v) == IF f.client /\ v # Absent THEN v ELSE None
    IN  [socket |-> OrNone(f.socket), host |-> OrNone(f.host),
         port |-> IF f.client THEN f.port ELSE <<>>,
         user |-> OrNone(f.user), password |-> OrNone(f.password)]

(* Db.__init__(user, passwd, host, port, socket, dbName, optionFile), the    *)
(* arguments in the record a.  Each field not given is taken from the       *)
(* option file.  A port of None compares below 1, and the message of the    *)
(* error then fails to format it ("%d" of None).                            *)
dbserv_Db__init__(m, a, dbName, maxRetryCount) ==
    LET f == a.optionFile
        ret == dbserv_parseOptionFile(f)
        socket == IF f.given /\ ret.socket # None /\ a.socket = None
                  THEN ret.socket ELSE a.socket
        host0 == IF f.given /\ ret.host # None /\ a.host = None THEN ret.host ELSE a.host
        port == IF f.given /\ ret.port # <<>> /\ ~a.port.given
                THEN Port(int(ret.port)) ELSE a.port
        user == IF f.given /\ ret.user # None /\ a.user = None THEN ret.user ELSE a.user
        passwd0 == IF f.given /\ ret.password # None /\ a.passwd = None
                   THEN ret.password ELSE a.passwd
        passwd == IF passwd0 = None THEN "" ELSE passwd0
        host == IF host0 = localhost THEN loopback ELSE host0
    IN  IF f.given /\ ~f.isfile THEN Raise(m, DbException(ERR_INVALID_OPT_FILE, 0))
        ELSE IF user = None THEN Raise(m, DbException(ERR_MISSING_CON_INFO, 0))
        ELSE IF /\ socket = None
                /\ (\/ host = None \/ ~port.given
                    \/ port.value < MinPort \/ port.value > MaxPort)
        THEN IF host = None THEN Raise(m, DbException(ERR_MISSING_CON_INFO, 0))
             ELSE IF ~port.given THEN Raise(m, [kind |-> "TypeError", code |-> 0, detail |-> 0])
             ELSE Raise(m, DbException(ERR_MISSING_CON_INFO, 0))
        ELSE [m EXCEPT !.sdb =
                [port |-> port, user |-> user, passwd |-> passwd, optionFile |-> f.given]
                @@ [dbserv_NewDb(socket # None, host # None /\ port.given, dbName,
                                 maxRetryCount)
                      EXCEPT !.host = host, !.unix_socket = socket]]

(* MySQLdb.connect(unix_socket=...) and MySQLdb.connect(host=..., port=...): *)
(* the result is assigned to self._conn.                                   *)
dbserv_MySQLdb_connect(m, call, downCode, faults) ==
    LET args == IF call = "connect_port" THEN ConnectArgs(m.sdb.host, None)
                ELSE ConnectArgs(None, m.sdb.unix_socket)
    IN  IF ~m.srv.up
        THEN { Raise(LogCmd(m, call, downCode, args), MySQLdbError(downCode)) }
        ELSE { [LogCmd(m, call, 0, args) EXCEPT !.sdb.conn = NewConn, !.srv.open = @ + 1] }
             \cup InjectCmd(m, call, faults, args)

(* conn.commit() *)
dbserv_conn_commit(m) ==
    IF ~m.sdb.conn.alive
    THEN { Raise(Log(m, "commit", CR_SERVER_GONE), MySQLdbError(CR_SERVER_GONE)) }
    ELSE { Log(m, "commit", 0) } \cup Inject(m, "commit", CommandFaults)

dbserv_checkIsConnected(m) == ~m.sdb.conn.none

getDefaultDbName(m) == m.sdb.defaultDbName

checkIsConnectedToDb(m, dbName) ==
    dbserv_checkIsConnected(m) /\ m.sdb.isConnectedToDb /\ dbName = getDefaultDbName(m)

dbserv_closeConnection(m) ==
    IF m.sdb.conn.none THEN m
    ELSE [close(m, m.sdb.conn) EXCEPT !.sdb.conn = NoneConn]

_handleConnectionFailure(m, e0) ==
    LET c == [dbserv_closeConnection(m) EXCEPT !.sdb.curRetryCount = @ + 1]
    IN  IF e0 \in dbserv_mysqlConnErrors /\ c.sdb.curRetryCount <= c.sdb.maxRetryCount
        THEN sleep(c)
        ELSE Raise(c, DbException(ERR_MYSQL_CONNECT, e0))

_connectThroughPort(m) ==
    ExceptMySQLdb(dbserv_MySQLdb_connect(m, "connect_port", CR_CONN_HOST, PortFaults),
                  LAMBDA e: {_handleConnectionFailure(Caught(e), e.exc.code)})

(* Mutant: a failed socket attempt is handled as a failure at once. *)
_connectThroughSocket_noFallback(m) ==
    ExceptMySQLdb(dbserv_MySQLdb_connect(m, "connect_socket", CR_CONNECTION, SocketFaults),
                  LAMBDA e: {_handleConnectionFailure(Caught(e), e.exc.code)})

_connectThroughSocket(m) ==
    ExceptMySQLdb(dbserv_MySQLdb_connect(m, "connect_socket", CR_CONNECTION, SocketFaults),
                  LAMBDA e: IF e.sdb.hostPort
                            THEN _connectThroughPort(Caught(e))
                            ELSE {_handleConnectionFailure(Caught(e), e.exc.code)})

(* The while loop of connectToMySQLServer. *)
RECURSIVE connectToMySQLServer(_)
connectToMySQLServer(m) ==
    IF ~(m.sdb.curRetryCount <= m.sdb.maxRetryCount) THEN {m}
    ELSE IF dbserv_checkIsConnected(m) THEN {m}
    ELSE Then(IF m.sdb.socket THEN _connectThroughSocket(m) ELSE _connectThroughPort(m),
              LAMBDA a: connectToMySQLServer(
                          IF dbserv_checkIsConnected(a)
                          THEN [a EXCEPT !.sdb.curRetryCount = 0] ELSE a))

commit(m) ==
    IF ~dbserv_checkIsConnected(m) THEN {Raise(m, DbException(ERR_NOT_CONNECTED, 0))}
    ELSE dbserv_conn_commit(m)

dbserv_disconnect(m) ==
    IF m.sdb.conn.none THEN {m}
    ELSE Then(ExceptMySQLdb(Then(commit(m), LAMBDA c: {dbserv_closeConnection(c)}),
                            LAMBDA e: {Raise(e, DbException(ERR_MYSQL_DISCONN, e.exc.code))}),
              LAMBDA a: {[a EXCEPT !.sdb.conn = NoneConn, !.sdb.isConnectedToDb = FALSE]})

_getDefaultDbNameIfNeeded(m, dbName) ==
    IF dbName # None THEN Return(m, dbName)
    ELSE IF getDefaultDbName(m) = None
         THEN Raise(m, DbException(ERR_INVALID_DB_NAME, 0))
         ELSE Return(m, getDefaultDbName(m))

(* self._conn.select_db(dbName) with self._conn None is an AttributeError. *)
connectToDb(m, dbName) ==
    Then({_getDefaultDbNameIfNeeded(m, dbName)}, LAMBDA r:
      LET dn == r.ret
      IN  IF checkIsConnectedToDb(r, dn) THEN {Return(r, None)}
          ELSE Then(ExceptMySQLdb(
                      Then(connectToMySQLServer(r), LAMBDA a:
                        IF a.sdb.conn.none
                        THEN {Raise(a, [kind |-> "AttributeError", code |-> 0, detail |-> 0])}
                        ELSE select_db(a, a.sdb.conn, dn, PutSConn)),
                      LAMBDA e: {Raise(e, DbException(ERR_CANT_CONNECT_TO_DB, 0))}),
                    LAMBDA a: {Return([a EXCEPT !.sdb.isConnectedToDb = TRUE,
                                                !.sdb.defaultDbName = dn], None)}))

RECURSIVE dbserv_execCommand(_, _, _)
dbserv_execCommand(m, command, nRowsRet) ==
    Then(connectToMySQLServer(m), LAMBDA a:
      IF a.sdb.conn.none THEN {Raise(a, DbException(ERR_INTERNAL, 0))}
      ELSE Then(ExceptMySQLdb(execute(a, a.sdb.conn, command, PutSConn), LAMBDA e:
                  IF e.exc.code \in dbserv_mysqlConnErrors
                  THEN LET c == [dbserv_closeConnection(Caught(e))
                                   EXCEPT !.sdb.isConnectedToDb = FALSE]
                       IN  Then(IF getDefaultDbName(c) # None
                                THEN connectToDb(c, getDefaultDbName(c)) ELSE {c},
                                LAMBDA b: dbserv_execCommand(b, command, nRowsRet))
                  ELSE {Raise(e, DbException(ERR_MYSQL_ERROR, e.exc.code))}),
                LAMBDA x: {Return(x, IF nRowsRet = 0 THEN "" ELSE x.row)}))

dbserv_execCommand0(m, command) ==
    Then(dbserv_execCommand(m, command, 0), LAMBDA a: {Return(a, None)})
dbserv_execCommand1(m, command) == dbserv_execCommand(m, command, 1)

dbserv_checkDbExists(m, dbName) ==
    IF dbName = None /\ getDefaultDbName(m) = None THEN {Return(m, "False")}
    ELSE Then({_getDefaultDbNameIfNeeded(m, dbName)}, LAMBDA r:
           LET dn == r.ret
           IN  Then(connectToMySQLServer(r), LAMBDA a:
                 Then(dbserv_execCommand1(a, Cmd("COUNT schemata", dn, None)), LAMBDA c:
                   {Return(c, IF c.ret = "1" THEN "True" ELSE "False")})))

(* Mutant: the database created is made the default database. *)
dbserv_createDb_selects(m, dbName) ==
    IF dbName = None THEN {Raise(m, DbException(ERR_INVALID_DB_NAME, 0))}
    ELSE Then(connectToMySQLServer(m), LAMBDA a:
           Then(dbserv_checkDbExists(a, dbName), LAMBDA c:
             IF c.ret = "True" THEN {Raise(c, DbException(ERR_DB_EXISTS, 0))}
             ELSE Then(dbserv_execCommand0(c, Cmd("CREATE DATABASE", dbName, None)),
                       LAMBDA d: connectToDb(d, dbName))))

dbserv_createDb(m, dbName) ==
    IF dbName = None THEN {Raise(m, DbException(ERR_INVALID_DB_NAME, 0))}
    ELSE Then(connectToMySQLServer(m), LAMBDA a:
           Then(dbserv_checkDbExists(a, dbName), LAMBDA c:
             IF c.ret = "True" THEN {Raise(c, DbException(ERR_DB_EXISTS, 0))}
             ELSE dbserv_execCommand0(c, Cmd("CREATE DATABASE", dbName, None))))

_resetDefaultDbName(m) == dbserv_disconnect([m EXCEPT !.sdb.defaultDbName = None])

dbserv_dropDb(m, dbName) ==
    Then({_getDefaultDbNameIfNeeded(m, dbName)}, LAMBDA r:
      LET dn == r.ret
      IN  Then(connectToMySQLServer(r), LAMBDA a:
            Then(dbserv_checkDbExists(a, dn), LAMBDA c:
              IF c.ret # "True" THEN {Raise(c, DbException(ERR_DB_DOES_NOT_EXIST, 0))}
              ELSE Then(dbserv_execCommand0(c, Cmd("DROP DATABASE", dn, None)), LAMBDA d:
                     IF dn = getDefaultDbName(d)
                     THEN Then(_resetDefaultDbName(d), LAMBDA x: {Return(x, None)})
                     ELSE {d}))))

dbserv_checkTableExists(m, tableName, dbName) ==
    IF dbName = None /\ getDefaultDbName(m) = None THEN {Return(m, "False")}
    ELSE Then({_getDefaultDbNameIfNeeded(m, dbName)}, LAMBDA r:
           LET dn == r.ret
           IN  Then(connectToMySQLServer(r), LAMBDA a:
                 Then(dbserv_execCommand1(a, Cmd("COUNT tables", dn, tableName)), LAMBDA c:
                   {Return(c, IF c.ret = "1" THEN "True" ELSE "False")})))

dbserv_createTable(m, tableName, dbName) ==
    Then({_getDefaultDbNameIfNeeded(m, dbName)}, LAMBDA r:
      LET dn == r.ret
      IN  Then(connectToMySQLServer(r), LAMBDA a:
            Then(dbserv_checkTableExists(a, tableName, dn), LAMBDA c:
              IF c.ret = "True" THEN {Raise(c, DbException(ERR_TB_EXISTS, 0))}
              ELSE dbserv_execCommand0(c, Cmd("CREATE TABLE", dn, tableName)))))

(* dropTable builds its command from tableSchema, a name that is neither a  *)
(* parameter nor a global: the statement raises NameError before the        *)
(* command is sent.                                                         *)
dbserv_dropTable(m, tableName, dbName) ==
    Then({_getDefaultDbNameIfNeeded(m, dbName)}, LAMBDA r:
      LET dn == r.ret
      IN  Then(connectToMySQLServer(r), LAMBDA a:
            Then(dbserv_checkTableExists(a, tableName, dn), LAMBDA c:
              IF c.ret # "True" THEN {Raise(c, DbException(ERR_TB_DOES_NOT_EXIST, 0))}
              ELSE {Raise(c, [kind |-> "NameError", code |-> 0, detail |-> 0])})))

(* Mutant: the view count is returned without the existence check. *)
dbserv_isView_unchecked(m, tableName, dbName) ==
    Then({_getDefaultDbNameIfNeeded(m, dbName)}, LAMBDA r:
      Then(connectToMySQLServer(r), LAMBDA a:
        dbserv_execCommand1(a, Cmd("COUNT views", r.ret, tableName))))

dbserv_isView(m, tableName, dbName) ==
    Then({_getDefaultDbNameIfNeeded(m, dbName)}, LAMBDA r:
      LET dn == r.ret
      IN  Then(connectToMySQLServer(r), LAMBDA a:
            Then(dbserv_checkTableExists(a, tableName, dn), LAMBDA c:
              IF c.ret # "True" THEN {Raise(c, DbException(ERR_TB_DOES_NOT_EXIST, 0))}
              ELSE dbserv_execCommand1(c, Cmd("COUNT views", dn, tableName)))))

----------------------------------------------------------------------------
(* lsst.db.dbPool.DbPool *)

ENTRY_NOT_FOUND == 1600
ENTRY_EXISTS == 1605
DbPoolException(code) == [kind |-> "DbPoolException", code |-> code, detail |-> 0]

PoolNames == {"a", "b"}
(* The clock when a run starts: later than any checkFreq after time 0. *)
Epoch == 10
(* checkFreq: -1 for "don't check it at all", else seconds: fewer than have  *)
(* passed since time 0 when a run starts, or as many as pass in a run.       *)
CheckFreqs == {-1, 1, Epoch + MaxTicks}

(* The keyword arguments kept for Db(): enough to build one, or not. *)
PoolKwargs ==
    {[user |-> u, passwd |-> "p", host |-> None, port |-> NoPort, socket |-> "s",
      optionFile |-> NoOptionFile, preferTcp |-> FALSE] : u \in {None, "u"}}

(* DbEntry.__init__; dbObj None is NoInstance. *)
DbEntry(checkFreq, lastChecked, kwargs) ==
    [present |-> TRUE, kwargs |-> kwargs, checkFreq |-> checkFreq,
     lastChecked |-> lastChecked, dbObj |-> [NewDb(0) EXCEPT !.attemptMaxNo = 0, !.attemptNo = 0]]
(* A name the dictionary self._pool does not have. *)
NoEntry ==
    [DbEntry(-1, 0, CHOOSE k \in PoolKwargs : k.user = None) EXCEPT !.present = FALSE]
(* DbPool.__init__ *)
EmptyPool == [n \in PoolNames |-> NoEntry]

(* Mutant: an entry of the same name is replaced. *)
addConn_replaces(m, cName, checkFreq, kwargs) ==
    [m EXCEPT !.pool[cName] = DbEntry(checkFreq, 0, kwargs)]

addConn(m, cName, checkFreq, kwargs) ==
    IF m.pool[cName].present THEN Raise(m, DbPoolException(ENTRY_EXISTS))
    ELSE [m EXCEPT !.pool[cName] = DbEntry(checkFreq, 0, kwargs)]

(* Mutant: a name that is not in the pool is ignored. *)
delConn_lenient(m, cName) == [m EXCEPT !.pool[cName] = NoEntry]

(* del self._pool[cName] drops the last reference to the entry and to its  *)
(* Db object, whose __del__ disconnects.                                   *)
delConn(m, cName) ==
    IF ~m.pool[cName].present THEN Raise(m, DbPoolException(ENTRY_NOT_FOUND))
    ELSE [disconnect([m EXCEPT !.db = m.pool[cName].dbObj])
            EXCEPT !.pool[cName] = NoEntry, !.db = m.db]

(* A method of Db called on the dbObj of the entry cName: F runs with the   *)
(* object in the place of m.db, and the object is stored back.              *)
OnEntry(m, cName, F(_)) ==
    { [r EXCEPT !.pool[cName].dbObj = r.db, !.db = m.db] :
        r \in F([m EXCEPT !.db = m.pool[cName].dbObj]) }

(* db.isConnected(): lsst.db.db.Db has no attribute of that name. *)
isConnected(m) == { Raise(m, [kind |-> "AttributeError", code |-> 0, detail |-> 0]) }

(* Mutant: the probe is made whatever checkFreq is. *)
getConn_probesAlways(m, cName) ==
    IF ~m.pool[cName].present THEN { Raise(m, DbPoolException(ENTRY_NOT_FOUND)) }
    ELSE LET entry == m.pool[cName]
         IN  IF entry.dbObj.attemptMaxNo = 0
             THEN Then(OnEntry(m, cName, LAMBDA x: {Db__init__(x, entry.kwargs, 0)}),
                       LAMBDA r: {Return(r, cName)})
             ELSE Then(OnEntry(m, cName, isConnected), LAMBDA c:
                    Then(IF c.ret # "True"
                         THEN OnEntry(c, cName, LAMBDA x: connect(x, None))
                         ELSE {c},
                         LAMBDA d: {Return([d EXCEPT !.pool[cName].lastChecked = d.now],
                                           cName)}))

(* Mutant: the Db object is built at every call. *)
getConn_rebuilds(m, cName) ==
    IF ~m.pool[cName].present THEN { Raise(m, DbPoolException(ENTRY_NOT_FOUND)) }
    ELSE LET entry == m.pool[cName]
         IN  Then(OnEntry(m, cName, LAMBDA x: {Db__init__(x, entry.kwargs, 0)}),
                  LAMBDA r: {Return(r, cName)})

getConn(m, cName) ==
    IF ~m.pool[cName].present THEN { Raise(m, DbPoolException(ENTRY_NOT_FOUND)) }
    ELSE LET entry == m.pool[cName]
         IN  IF entry.dbObj.attemptMaxNo = 0
             THEN Then(OnEntry(m, cName, LAMBDA x: {Db__init__(x, entry.kwargs, 0)}),
                       LAMBDA r: {Return(r, cName)})
             ELSE IF entry.checkFreq # -1 /\ m.now - entry.lastChecked > entry.checkFreq
             THEN Then(OnEntry(m, cName, isConnected), LAMBDA c:
                    Then(IF c.ret # "True"
                         THEN OnEntry(c, cName, LAMBDA x: connect(x, None))
                         ELSE {c},
                         LAMBDA d: {Return([d EXCEPT !.pool[cName].lastChecked = d.now],
                                           cName)}))
             ELSE {Return(m, cName)}

----------------------------------------------------------------------------
(* lsst.db.testHelper *)

(* One element of the argument vector of the mysql client: the program     *)
(* name, a flag, or --name=value.                                          *)
Opt(name, value) == [name |-> name, value |-> value]
ScriptKwargs ==
    [host : {Absent, localhost, "h"}, passwd : {Absent, "p"},
     read_default_file : {Absent, "f"}, read_default_group : {Absent, "g"},
     scriptIsFile : BOOLEAN]

(* The vector loadSqlScript builds from connectArgs: --no-defaults when no  *)
(* option file is named, the option file first when one is, then one        *)
(* option for each other key of connectArgToOptionMap (in the order of the  *)
(* dictionary, here host before passwd).                                    *)
mysqlArgs(connectArgs) ==
    LET first == IF connectArgs.read_default_file = Absent
                 THEN <<Opt("mysql", NoArg), Opt("--no-defaults", NoArg)>>
                 ELSE <<Opt("mysql", NoArg),
                        Opt("--defaults-file", connectArgs.read_default_file)>>
        host == IF connectArgs.host = Absent THEN <<>>
                ELSE <<Opt("--host", connectArgs.host)>>
        passwd == IF connectArgs.passwd = Absent THEN <<>>
                  ELSE <<Opt("--password", connectArgs.passwd)>>
    IN  first \o host \o passwd

(* subprocess.call(argv, stdin=scriptFile): the exit status of the client,  *)
(* which is not 0 when the server is down or the script is bad.             *)
subprocess_call(m, argv) ==
    { Return(LogCmd(m, "subprocess.call", rc, [kind |-> "mysql", argv |-> argv]),
             IF rc = 0 THEN "0" ELSE "1") :
        rc \in IF m.srv.up THEN {0, 1} ELSE {1} }

(* Mutant: a password among the keyword arguments is passed on. *)
loadSqlScript_passwdAllowed(m, kwargs) ==
    LET connectArgs == [kwargs EXCEPT
                          !.read_default_group = Absent,
                          !.host = IF @ = localhost THEN loopback ELSE @]
    IN  IF ~kwargs.scriptIsFile
        THEN { Raise(m, [kind |-> "IOError", code |-> 0, detail |-> 0]) }
        ELSE Then(subprocess_call(m, mysqlArgs(connectArgs)), LAMBDA r:
               IF r.ret # "0"
               THEN { Raise(r, [kind |-> "CannotExecuteScriptError", code |-> 0, detail |-> 0]) }
               ELSE { Return(r, None) })

(* loadSqlScript(scriptPath, **kwargs); scriptIsFile tells whether          *)
(* open(scriptPath) finds the script.                                       *)
loadSqlScript(m, kwargs) ==
    LET connectArgs == [kwargs EXCEPT
                          !.read_default_group = Absent,
                          !.host = IF @ = localhost THEN loopback ELSE @]
    IN  IF kwargs.passwd # Absent
        THEN { Raise(m, [kind |-> "PasswordNotAllowedError", code |-> 0, detail |-> 0]) }
        ELSE IF ~kwargs.scriptIsFile
        THEN { Raise(m, [kind |-> "IOError", code |-> 0, detail |-> 0]) }
        ELSE Then(subprocess_call(m, mysqlArgs(connectArgs)), LAMBDA r:
               IF r.ret # "0"
               THEN { Raise(r, [kind |-> "CannotExecuteScriptError", code |-> 0, detail |-> 0]) }
               ELSE { Return(r, None) })

----------------------------------------------------------------------------
(* The calls a client makes, one action each. *)

NoInstance == [NewDb(0) EXCEPT !.attemptMaxNo = 0, !.attemptNo = 0]
dbserv_NoInstance == [dbserv_NewDb(FALSE, FALSE, None, 0) EXCEPT !.built = FALSE]
Args(d, t, f) == [db |-> d, tb |-> t, flag |-> f, cmd |-> NoArg]

(* The call before the last one, which the observer keeps for the calls    *)
(* whose contract is about two calls in a row: its name and whether it     *)
(* returned normally.                                                      *)
NoPrev == [op |-> NoArg, ok |-> TRUE]
TwoCallOps == {"disconnect", "createTable", "getConn"}
Prev(op) ==
    IF op \in TwoCallOps
    THEN [op |-> obs.op, ok |-> obs.exc.kind = "none"]
    ELSE NoPrev

Start ==
    [db |-> db, sdb |-> sdb, srv |-> srv, local |-> NoneConn, exc |-> NoExc,
     ret |-> None, row |-> None, trace |-> <<>>, budget |-> budget,
     pool |-> pool, now |-> now]

Finish(op, args, r) ==
    /\ db' = r.db
    /\ sdb' = r.sdb
    /\ srv' = r.srv
    /\ pool' = r.pool
    /\ obs' = [op |-> op, args |-> args, exc |-> r.exc, ret |-> r.ret, trace |-> r.trace,
               prev |-> Prev(op)]
    /\ UNCHANGED <<budget, now>>

HasDb == db.attemptMaxNo > 0

Connect ==
    /\ HasDb
    /\ \E dn \in DbArgs : \E r \in connect(Start, dn) :
          Finish("connect", Args(dn, NoArg, FALSE), r)

Disconnect ==
    /\ HasDb
    /\ Finish("disconnect", Args(NoArg, NoArg, FALSE), disconnect(Start))

UseDb ==
    /\ HasDb
    /\ \E dn \in DbNames : \E r \in useDb(Start, dn) :
          Finish("useDb", Args(dn, NoArg, FALSE), r)

GetCurrentDbName ==
    /\ HasDb
    /\ \E r \in getCurrentDbName(Start) :
          Finish("getCurrentDbName", Args(NoArg, NoArg, FALSE), r)

(* execCommand1 of the two queries the wrapper itself issues. *)
Queries == {Cmd("SELECT DATABASE()", None, None), Cmd("COUNT schemata", "A", None)}

ExecCommand1 ==
    /\ HasDb
    /\ \E q \in Queries : \E r \in execCommand1(Start, q) :
          Finish("execCommand1", [Args(NoArg, NoArg, FALSE) EXCEPT !.cmd = q.kind], r)

Commands ==
    {Cmd("CREATE DATABASE", "A", None), Cmd("DROP DATABASE", "A", None),
     Cmd("CREATE TABLE", "A", "t"), Cmd("DROP TABLE", "A", "t")}

ExecCommand0 ==
    /\ HasDb
    /\ \E q \in Commands : \E r \in execCommand0(Start, q) :
          Finish("execCommand0", [Args(q.db, q.tb, FALSE) EXCEPT !.cmd = q.kind], r)

CreateDb ==
    /\ HasDb
    /\ \E dn \in DbArgs, mayExist \in BOOLEAN : \E r \in createDb(Start, dn, mayExist) :
          Finish("createDb", Args(dn, NoArg, mayExist), r)

CheckDbExists ==
    /\ HasDb
    /\ \E dn \in DbArgs : \E r \in checkDbExists(Start, dn) :
          Finish("checkDbExists", Args(dn, NoArg, FALSE), r)

DropDb ==
    /\ HasDb
    /\ \E dn \in DbNames, mustExist \in BOOLEAN : \E r \in dropDb(Start, dn, mustExist) :
          Finish("dropDb", Args(dn, NoArg, mustExist), r)

CheckTableExists ==
    /\ HasDb
    /\ \E tn \in TbNames, dn \in DbArgs : \E r \in checkTableExists(Start, tn, dn) :
          Finish("checkTableExists", Args(dn, tn, FALSE), r)

CreateTable ==
    /\ HasDb
    /\ \E tn \in TbNames, dn \in DbArgs, mayExist \in BOOLEAN :
          \E r \in createTable(Start, tn, dn, mayExist) :
            Finish("createTable", Args(dn, tn, mayExist), r)

DropTable ==
    /\ HasDb
    /\ \E tn \in TbNames, dn \in DbArgs, mustExist \in BOOLEAN :
          \E r \in dropTable(Start, tn, dn, mustExist) :
            Finish("dropTable", Args(dn, tn, mustExist), r)

IsView ==
    /\ HasDb
    /\ \E tn \in TbNames, dn \in DbArgs : \E r \in isView(Start, tn, dn) :
          Finish("isView", Args(dn, tn, FALSE), r)

GetTableContent ==
    /\ HasDb
    /\ \E tn \in TbNames, dn \in DbArgs : \E r \in getTableContent(Start, tn, dn) :
          Finish("getTableContent", Args(dn, tn, FALSE), r)

(* execCommand0("CREATE VIEW dn.tn AS SELECT ...") *)
CreateView ==
    /\ HasDb
    /\ \E tn \in TbNames, dn \in DbNames :
          \E r \in execCommand0(Start, Cmd("CREATE VIEW", dn, tn)) :
            Finish("createView", Args(dn, tn, FALSE), r)

(* The calls on a lsst.dbserv.db.Db instance. *)
HasSdb == sdb.built

dbserv_ConnectToMySQLServer ==
    /\ HasSdb
    /\ \E r \in connectToMySQLServer(Start) :
          Finish("connectToMySQLServer", Args(NoArg, NoArg, FALSE), r)

dbserv_Disconnect ==
    /\ HasSdb
    /\ \E r \in dbserv_disconnect(Start) :
          Finish("dbserv.disconnect", Args(NoArg, NoArg, FALSE), r)

dbserv_ConnectToDb ==
    /\ HasSdb
    /\ \E dn \in DbArgs : \E r \in connectToDb(Start, dn) :
          Finish("connectToDb", Args(dn, NoArg, FALSE), r)

dbserv_ExecCommand1 ==
    /\ HasSdb
    /\ \E q \in Queries : \E r \in dbserv_execCommand1(Start, q) :
          Finish("dbserv.execCommand1", [Args(NoArg, NoArg, FALSE) EXCEPT !.cmd = q.kind], r)

dbserv_CreateDb ==
    /\ HasSdb
    /\ \E dn \in DbArgs : \E r \in dbserv_createDb(Start, dn) :
          Finish("dbserv.createDb", Args(dn, NoArg, FALSE), r)

dbserv_DropDb ==
    /\ HasSdb
    /\ \E dn \in DbArgs : \E r \in dbserv_dropDb(Start, dn) :
          Finish("dbserv.dropDb", Args(dn, NoArg, FALSE), r)

dbserv_CheckDbExists ==
    /\ HasSdb
    /\ \E dn \in DbArgs : \E r \in dbserv_checkDbExists(Start, dn) :
          Finish("dbserv.checkDbExists", Args(dn, NoArg, FALSE), r)

dbserv_CheckTableExists ==
    /\ HasSdb
    /\ \E tn \in TbNames, dn \in DbArgs : \E r \in dbserv_checkTableExists(Start, tn, dn) :
          Finish("dbserv.checkTableExists", Args(dn, tn, FALSE), r)

dbserv_CreateTable ==
    /\ HasSdb
    /\ \E tn \in TbNames, dn \in DbArgs : \E r \in dbserv_createTable(Start, tn, dn) :
          Finish("dbserv.createTable", Args(dn, tn, FALSE), r)

dbserv_DropTable ==
    /\ HasSdb
    /\ \E tn \in TbNames, dn \in DbArgs : \E r \in dbserv_dropTable(Start, tn, dn) :
          Finish("dbserv.dropTable", Args(dn, tn, FALSE), r)

dbserv_CreateView ==
    /\ HasSdb
    /\ \E tn \in TbNames, dn \in DbNames :
          \E r \in dbserv_execCommand0(Start, Cmd("CREATE VIEW", dn, tn)) :
            Finish("dbserv.createView", Args(dn, tn, FALSE), r)

dbserv_IsView ==
    /\ HasSdb
    /\ \E tn \in TbNames, dn \in DbArgs : \E r \in dbserv_isView(Start, tn, dn) :
          Finish("dbserv.isView", Args(dn, tn, FALSE), r)

(* The construction of an instance, when there is none. *)
CtorArgs(user, passwd, host, port, socket, optionFile, preferTcp) ==
    [user |-> user, passwd |-> passwd, host |-> host, port |-> port, socket |-> socket,
     optionFile |-> optionFile, preferTcp |-> preferTcp]

(* The arguments of every construction the model makes. *)
CtorArgSets ==
    { CtorArgs(user, passwd, host, port, socket, optionFile, preferTcp) :
        user \in {None, "u"}, passwd \in {None, "p"}, host \in HostArgs,
        port \in PortArgs, socket \in {None, "s"}, optionFile \in OptionFiles,
        preferTcp \in BOOLEAN }

(* The construction is the first call of a run; its arguments are drawn     *)
(* beforehand and wait in obs.args.                                         *)
Construct ==
    /\ ~HasDb /\ ~HasSdb
    /\ obs.op = "init"
    /\ Finish("Db.__init__", obs.args, Db__init__(Start, obs.args, 0))

dbserv_Construct ==
    /\ ~HasDb /\ ~HasSdb
    /\ obs.op = "init"
    /\ Finish("dbserv.Db.__init__", obs.args, dbserv_Db__init__(Start, obs.args, None, 0))

(* Like a construction, the load of a script is the first call of a run,   *)
(* with its arguments drawn beforehand.                                     *)
LoadSqlScript ==
    /\ obs.op = "init script"
    /\ \E r \in loadSqlScript(Start, obs.args) : Finish("loadSqlScript", obs.args, r)

(* The calls on the DbPool instance, and on the Db objects it hands out. *)
AddConn ==
    \E cName \in PoolNames, checkFreq \in CheckFreqs, kwargs \in PoolKwargs :
       Finish("addConn", [name |-> cName, checkFreq |-> checkFreq, kwargs |-> kwargs],
              addConn(Start, cName, checkFreq, kwargs))

DelConn ==
    \E cName \in PoolNames :
       Finish("delConn", [name |-> cName], delConn(Start, cName))

GetConn ==
    \E cName \in PoolNames : \E r \in getConn(Start, cName) :
       Finish("getConn", [name |-> cName], r)

(* The holder of an object got from the pool connects it. *)
PoolConnect ==
    \E cName \in PoolNames :
       /\ pool[cName].present /\ pool[cName].dbObj.attemptMaxNo > 0
       /\ \E r \in OnEntry(Start, cName, LAMBDA x: connect(x, None)) :
             Finish("getConn.connect", [name |-> cName], r)

(* A second passes. *)
Tick ==
    /\ now < Epoch + MaxTicks
    /\ now' = now + 1
    /\ obs' = [op |-> "tick", args |-> Args(NoArg, NoArg, FALSE), exc |-> NoExc,
               ret |-> None, trace |-> <<>>, prev |-> NoPrev]
    /\ UNCHANGED <<db, sdb, srv, budget, pool>>

(* The environment: the server stops (every connection to it dies) and     *)
(* starts again, with its databases kept.                                  *)
Environment(op) ==
    /\ obs' = [op |-> op, args |-> Args(NoArg, NoArg, FALSE), exc |-> NoExc,
               ret |-> None, trace |-> <<>>, prev |-> NoPrev]
    /\ UNCHANGED <<budget, now>>

ServerStop ==
    /\ srv.up
    /\ srv' = [srv EXCEPT !.up = FALSE]
    /\ db' = [db EXCEPT !.conn.alive = FALSE]
    /\ sdb' = [sdb EXCEPT !.conn.alive = FALSE]
    /\ pool' = [n \in PoolNames |-> [pool[n] EXCEPT !.dbObj.conn.alive = FALSE]]
    /\ Environment("serverStop")

ServerStart ==
    /\ ~srv.up
    /\ srv' = [srv EXCEPT !.up = TRUE]
    /\ UNCHANGED <<db, sdb, pool>>
    /\ Environment("serverStart")

----------------------------------------------------------------------------
(* The specifications. *)

NoObs == [op |-> "init", args |-> Args(NoArg, NoArg, FALSE), exc |-> NoExc,
          ret |-> None, trace |-> <<>>,
          prev |-> NoPrev]
EmptyServer == [up |-> TRUE, dbs |-> {}, tables |-> {}, views |-> {}, open |-> 0]

(* Connection handling of lsst.db.db.Db against a server with database A,  *)
(* the driver failing at will.                                             *)
InitConn ==
    /\ \E n \in 0..MaxRetryCount : db = NewDb(n)
    /\ sdb = dbserv_NoInstance
    /\ srv = [EmptyServer EXCEPT !.dbs = {"A"}]
    /\ budget = MaxFaults
    /\ pool = EmptyPool /\ now = Epoch
    /\ obs = NoObs

NextConn == Connect \/ Disconnect \/ UseDb \/ GetCurrentDbName \/ ExecCommand1

SpecConn == InitConn /\ [][NextConn]_vars

(* The schema operations of lsst.db.db.Db against a server that stops and  *)
(* starts.                                                                 *)
InitSchema ==
    /\ db = NewDb(0)
    /\ sdb = dbserv_NoInstance
    /\ srv = EmptyServer
    /\ budget = 0
    /\ pool = EmptyPool /\ now = Epoch
    /\ obs = NoObs

NextSchema ==
    \/ Connect \/ Disconnect \/ UseDb \/ CreateDb \/ CheckDbExists \/ DropDb
    \/ CheckTableExists \/ CreateTable \/ DropTable \/ IsView \/ GetTableContent
    \/ ServerStop \/ ServerStart

SpecSchema == InitSchema /\ [][NextSchema]_vars

(* Command execution of lsst.dbserv.db.Db against a server with database   *)
(* A, the driver failing at will.                                          *)
InitServ ==
    /\ db = NoInstance
    /\ \E socket, hostPort \in BOOLEAN, dn \in {None, "A"}, n \in 0..MaxRetryCount :
          /\ socket \/ hostPort
          /\ sdb = dbserv_NewDb(socket, hostPort, dn, n)
    /\ srv = [EmptyServer EXCEPT !.dbs = {"A"}]
    /\ budget = MaxFaults
    /\ pool = EmptyPool /\ now = Epoch
    /\ obs = NoObs

NextServ ==
    dbserv_ConnectToMySQLServer \/ dbserv_Disconnect \/ dbserv_ConnectToDb
    \/ dbserv_ExecCommand1

SpecServ == InitServ /\ [][NextServ]_vars

(* Commands given to lsst.db.db.Db as they are, against a server that      *)
(* stops and starts, the driver failing at will.                           *)
InitExec ==
    /\ db = NewDb(0)
    /\ sdb = dbserv_NoInstance
    /\ srv = EmptyServer
    /\ budget = MaxFaults
    /\ pool = EmptyPool /\ now = Epoch
    /\ obs = NoObs

NextExec == ExecCommand0 \/ ExecCommand1 \/ Disconnect \/ ServerStop \/ ServerStart

SpecExec == InitExec /\ [][NextExec]_vars

(* A pool of Db objects, against a server that stops and starts, while    *)
(* the clock advances.                                                     *)
InitPool ==
    /\ db = NoInstance
    /\ sdb = dbserv_NoInstance
    /\ srv = EmptyServer
    /\ budget = 0
    /\ pool = EmptyPool /\ now = Epoch
    /\ obs = NoObs

NextPool ==
    AddConn \/ DelConn \/ GetConn \/ PoolConnect \/ Tick \/ ServerStop \/ ServerStart

SpecPool == InitPool /\ [][NextPool]_vars

(* Dropping databases through either wrapper, against a server that stops  *)
(* and starts.                                                             *)
InitDrop ==
    /\ \/ db = NewDb(0) /\ sdb = dbserv_NoInstance
       \/ db = NoInstance /\ \E dn \in DbArgs : sdb = dbserv_NewDb(TRUE, TRUE, dn, 0)
    /\ srv = EmptyServer
    /\ budget = 0
    /\ pool = EmptyPool /\ now = Epoch
    /\ obs = NoObs

NextDrop ==
    \/ Connect \/ Disconnect \/ UseDb \/ CreateDb \/ DropDb
    \/ dbserv_ConnectToMySQLServer \/ dbserv_Disconnect \/ dbserv_ConnectToDb
    \/ dbserv_CreateDb \/ dbserv_DropDb
    \/ ServerStop \/ ServerStart

SpecDrop == InitDrop /\ [][NextDrop]_vars

(* Databases, tables and views through either wrapper, against a server    *)
(* that stops and starts.                                                  *)
InitTables ==
    /\ \/ db = NewDb(0) /\ sdb = dbserv_NoInstance
       \/ db = NoInstance /\ \E dn \in DbArgs : sdb = dbserv_NewDb(TRUE, FALSE, dn, 0)
    /\ srv = EmptyServer
    /\ budget = 0
    /\ pool = EmptyPool /\ now = Epoch
    /\ obs = NoObs

NextTables ==
    \/ UseDb \/ CreateDb \/ DropDb \/ CheckDbExists \/ CheckTableExists
    \/ CreateTable \/ DropTable \/ CreateView \/ IsView
    \/ dbserv_ConnectToDb \/ dbserv_CreateDb \/ dbserv_DropDb \/ dbserv_CheckDbExists
    \/ dbserv_CheckTableExists \/ dbserv_CreateTable \/ dbserv_DropTable
    \/ dbserv_CreateView \/ dbserv_IsView
    \/ ServerStop \/ ServerStart

SpecTables == InitTables /\ [][NextTables]_vars

(* Construction of an instance of either class from every combination of   *)
(* arguments, and its first connections.                                   *)
InitCtor ==
    /\ db = NoInstance
    /\ sdb = dbserv_NoInstance
    /\ srv = EmptyServer
    /\ budget = 0
    /\ pool = EmptyPool /\ now = Epoch
    /\ obs \in { [NoObs EXCEPT !.args = a] : a \in CtorArgSets }
              \cup { [NoObs EXCEPT !.op = "init script", !.args = k] : k \in ScriptKwargs }

NextCtor ==
    \/ Construct \/ dbserv_Construct
    \/ Connect \/ Disconnect \/ dbserv_ConnectToMySQLServer \/ dbserv_Disconnect
    \/ LoadSqlScript
    \/ ServerStop \/ ServerStart

SpecCtor == InitCtor /\ [][NextCtor]_vars

----------------------------------------------------------------------------
(* What the claims are stated in. *)

ConnectionClass == {2002, 2003, 2006, 2013}
Returned(o) == o.exc.kind = "none"
Raised(o, code) == o.exc.kind = "DbException" /\ o.exc.code = code
Events(o, call) == {i \in 1..Len(o.trace) : o.trace[i].call = call}
LastCall(o) == IF o.trace = <<>> THEN NoArg ELSE o.trace[Len(o.trace)].call
(* The databases named by the commands of the call, SELECT DATABASE() aside. *)
Targets(o) ==
    {o.trace[i].cmd.db : i \in {j \in Events(o, "execute") :
                                  o.trace[j].cmd.kind # "SELECT DATABASE()"}}
IsConnected(d) == checkIsConnected([db |-> d])
(* The session of the lsst.db.db.Db instance d is live with database x selected. *)
Current(d, x) == IsConnected(d) /\ d.conn.alive /\ d.conn.sel = x
NoCurrent(d) == \A x \in DbNames : ~Current(d, x)
Fresh(d) == d = NewDb(d.attemptMaxNo - 1)

(* C1: a connect() call on a fresh lsst.db.db.Db instance built with        *)
(* maxRetryCount = N, every driver connect attempt of which fails with a   *)
(* connection-class code, makes exactly N+1 attempts with one sleep        *)
(* between two consecutive attempts and nothing else, and raises           *)
(* DbException SERVER_CONNECT.                                             *)
EveryConnectFails(o) ==
    \A i \in Events(o, "connect") : o.trace[i].code \in ConnectionClass
C1_BoundedRetry ==
    [][(Fresh(db) /\ obs'.op = "connect" /\ EveryConnectFails(obs'))
         => /\ Cardinality(Events(obs', "connect")) = db.attemptMaxNo
            /\ Len(obs'.trace) = 2 * db.attemptMaxNo - 1
            /\ \A i \in 1..Len(obs'.trace) :
                 obs'.trace[i].call = (IF i % 2 = 1 THEN "connect" ELSE "sleep")
            /\ Raised(obs', SERVER_CONNECT)]_vars
C1_Witness ==
    /\ obs.op = "connect" /\ EveryConnectFails(obs)
    /\ db.attemptMaxNo = MaxRetryCount + 1
    /\ Cardinality(Events(obs, "connect")) = MaxRetryCount + 1
    /\ Cardinality(Events(obs, "sleep")) = MaxRetryCount
    /\ Raised(obs, SERVER_CONNECT)

(* C2: one execCommand1 call of lsst.dbserv.db.Db sends its command to the  *)
(* server at most twice.                                                   *)
C2_AtMostTwoSends ==
    obs.op = "dbserv.execCommand1" => Cardinality(Events(obs, "execute")) <= 2

(* C3: when the first failure of an execCommand1 call of lsst.db.db.Db is a *)
(* connection-class error of the ping or of cursor.execute, the wrapper    *)
(* reconnects after it, and the call returns when the command then         *)
(* succeeds.                                                               *)
FirstFailure(o) ==
    IF \E i \in 1..Len(o.trace) : o.trace[i].code # 0
    THEN CHOOSE i \in 1..Len(o.trace) :
           o.trace[i].code # 0 /\ \A j \in 1..(i - 1) : o.trace[j].code = 0
    ELSE 0
C3_TransparentRecovery ==
    (/\ obs.op = "execCommand1"
     /\ FirstFailure(obs) # 0
     /\ obs.trace[FirstFailure(obs)].call \in {"ping", "execute"}
     /\ obs.trace[FirstFailure(obs)].code \in ConnectionClass)
      => /\ \E j \in Events(obs, "connect") : j > FirstFailure(obs)
         /\ (obs.trace[Len(obs.trace)] = Event("execute", 0, obs.trace[Len(obs.trace)].cmd)
               => Returned(obs))

(* C4: when an execCommand1 call of lsst.db.db.Db reconnects after a        *)
(* connection-class error and then issues its command, the database that   *)
(* was current before the call is current on the new connection.           *)
Reconnected(o) ==
    \E i \in Events(o, "ping") : \E j \in Events(o, "connect") : \E k \in Events(o, "execute") :
      o.trace[i].code \in ConnectionClass /\ i < j /\ o.trace[j].code = 0 /\ j < k
C4_ReconnectRestoresDb ==
    [][(/\ obs'.op = "execCommand1" /\ Reconnected(obs')
        /\ \E x \in DbNames : IsConnected(db) /\ db.conn.sel = x)
         => db'.conn.sel = db.conn.sel]_vars

DroppedCurrent(o) == o.op = "dropDb" /\ Returned(o) /\ LastCall(o) = "close"
C6_DefaultDbAcrossDrop ==
    [][(obs'.op = "createTable" /\ obs'.args.db = None /\ srv.up)
         => /\ \A x \in DbNames : Current(db, x) =>
                 IF <<x, obs'.args.tb>> \in srv.tables
                 THEN /\ srv'.tables = srv.tables
                      /\ IF obs'.args.flag THEN Returned(obs') ELSE Raised(obs', TB_EXISTS)
                 ELSE /\ srv'.tables = srv.tables \cup {<<x, obs'.args.tb>>}
                      /\ Returned(obs')
                      /\ Targets(obs') = {x}
            /\ DroppedCurrent(obs) =>
                 Raised(obs', INVALID_DB_NAME) /\ srv'.tables = srv.tables]_vars
C6_Witness ==
    /\ obs.op = "createTable" /\ obs.args.db = None
    /\ obs.prev = [op |-> "dropDb", ok |-> TRUE]
    /\ Raised(obs, INVALID_DB_NAME)
    /\ srv.tables = {}

(* C7: with the server up, createDb(X) on an existing database X leaves the *)
(* set of databases unchanged, returns normally when mayExist is True and  *)
(* raises DbException DB_EXISTS when it is False.                          *)
C7_CreateDbTolerance ==
    [][(obs'.op = "createDb" /\ obs'.args.db \in srv.dbs /\ srv.up)
         => /\ srv'.dbs = srv.dbs
            /\ IF obs'.args.flag THEN Returned(obs') ELSE Raised(obs', DB_EXISTS)]_vars
C7_Witness ==
    /\ obs.op = "createDb" /\ obs.args.flag /\ Returned(obs)
    /\ obs.args.db \in srv.dbs
    /\ \E i \in Events(obs, "execute") : obs.trace[i].code = 1007

(* C8: with the server up, dropDb(X) on a database X that does not exist    *)
(* raises DbException DB_DOES_NOT_EXIST when mustExist is True and returns *)
(* normally when it is False, and dropDb(X) on an existing X removes it.   *)
C8_DropDbTolerance ==
    [][(obs'.op = "dropDb" /\ srv.up)
         => IF obs'.args.db \in srv.dbs
            THEN Returned(obs') /\ srv'.dbs = srv.dbs \ {obs'.args.db}
            ELSE /\ srv'.dbs = srv.dbs
                 /\ IF obs'.args.flag THEN Raised(obs', DB_DOES_NOT_EXIST)
                    ELSE Returned(obs')]_vars
C8_Witness ==
    /\ obs.op = "dropDb" /\ ~obs.args.flag /\ Returned(obs)
    /\ \E i \in Events(obs, "execute") : obs.trace[i].code = 1008

(* C9: a dropDb(d) that returns normally, d being the database the session  *)
(* has selected (lsst.db.db.Db) or the default database (lsst.dbserv.db.Db), *)
(* leaves the instance disconnected from the server and from every         *)
(* database.                                                               *)
C9_DropCurrentTearsDown ==
    [][/\ (obs'.op = "dropDb" /\ Returned(obs') /\ Current(db, obs'.args.db))
          => ~IsConnected(db') /\ ~db'.isConnectedToDb
       /\ (/\ obs'.op = "dbserv.dropDb" /\ Returned(obs')
           /\ obs'.args.db \in {None, sdb.defaultDbName})
          => /\ ~dbserv_checkIsConnected([sdb |-> sdb'])
             /\ \A x \in DbArgs : ~checkIsConnectedToDb([sdb |-> sdb'], x)]_vars
C9_Witness ==
    /\ obs.op = "dbserv.dropDb" /\ Returned(obs) /\ obs.args.db \in DbNames
    /\ LastCall(obs) = "close"
    /\ sdb.conn.none /\ sdb.defaultDbName = None

(* C10, as stated: each of createTable, dropTable, isView, getTableContent  *)
(* and checkTableExists sends its command to the database of its dbName    *)
(* argument, else to the current database, else raises DbException         *)
(* INVALID_DB_NAME.                                                        *)
Resolves(o, before, ops) ==
    (o.op \in ops /\ srv.up)
      => IF o.args.db # None THEN Targets(o) = {o.args.db}
         ELSE IF NoCurrent(before)
              THEN Raised(o, INVALID_DB_NAME) /\ Targets(o) = {}
              ELSE \A x \in DbNames : Current(before, x) => Targets(o) = {x}
Bool(b) == IF b THEN "True" ELSE "False"
CanReach(d) == (d.conn.none \/ d.conn.alive) /\ d.curRetryCount <= d.maxRetryCount
ResolvedTo(o, before, x) ==
    IF o.args.db = None THEN Current(before, x) ELSE x = o.args.db
C12_TableTolerance ==
    [][srv.up => \A x \in DbNames : ResolvedTo(obs', db, x) =>
         /\ (obs'.op = "createTable" /\ <<x, obs'.args.tb>> \in srv.tables)
              => /\ srv'.tables = srv.tables
                 /\ IF obs'.args.flag THEN Returned(obs') ELSE Raised(obs', TB_EXISTS)
         /\ (obs'.op = "dropTable" /\ <<x, obs'.args.tb>> \notin srv.tables)
              => /\ srv'.tables = srv.tables
                 /\ IF obs'.args.flag THEN Raised(obs', TB_DOES_NOT_EXIST)
                    ELSE Returned(obs')
         /\ (obs'.op = "dropTable" /\ <<x, obs'.args.tb>> \in srv.tables \ srv.views)
              => Returned(obs') /\ srv'.tables = srv.tables \ {<<x, obs'.args.tb>>}]_vars
C12_Witness ==
    /\ obs.op = "createTable" /\ obs.args.db = None /\ obs.args.flag
    /\ Returned(obs)
    /\ \E i \in Events(obs, "execute") : obs.trace[i].code = 1050

(* C13: with the server up, isView(t, db) raises DbException               *)
(* TB_DOES_NOT_EXIST (ERR_TB_DOES_NOT_EXIST in lsst.dbserv.db.Db) when t is  *)
(* not a table of the resolved database, without asking for its type, and   *)
(* otherwise returns 0 for a plain table and 1 for a view.                  *)
AsksType(o) == \E i \in Events(o, "execute") : o.trace[i].cmd.kind = "COUNT views"
IsViewAnswer(o, x, code) ==
    IF <<x, o.args.tb>> \notin srv.tables
    THEN Raised(o, code) /\ ~AsksType(o)
    ELSE Returned(o) /\ o.ret = Count(<<x, o.args.tb>> \in srv.views)
C13_IsViewChecksExistence ==
    [][srv.up => \A x \in DbNames :
         /\ (obs'.op = "isView" /\ ResolvedTo(obs', db, x))
              => IsViewAnswer(obs', x, TB_DOES_NOT_EXIST)
         /\ (/\ obs'.op = "dbserv.isView" /\ CanReach(sdb)
             /\ x = (IF obs'.args.db = None THEN sdb.defaultDbName ELSE obs'.args.db))
              => IsViewAnswer(obs', x, ERR_TB_DOES_NOT_EXIST)]_vars
C13_Witness ==
    /\ obs.op = "isView" /\ Raised(obs, TB_DOES_NOT_EXIST)
    /\ obs.args.db \in srv.dbs
    /\ srv.views # {}
    /\ Targets(obs) = {obs.args.db}

(* C14: a connect() call of lsst.db.db.Db in which a driver call of the      *)
(* connection attempt (MySQLdb.connect or select_db) fails with a code      *)
(* outside {2002, 2003, 2006, 2013} raises DbException SERVER_CONNECT with  *)
(* neither a sleep nor another attempt after that failure, whatever         *)
(* maxRetryCount is.                                                        *)
FatalAt(o, i) ==
    /\ o.trace[i].call \in {"connect", "select_db"}
    /\ o.trace[i].code # 0
    /\ o.trace[i].code \notin ConnectionClass
C14_NoRetryOnFatal ==
    (obs.op = "connect")
      => \A i \in 1..Len(obs.trace) : FatalAt(obs, i)
           => /\ Raised(obs, SERVER_CONNECT)
              /\ \A j \in (i + 1)..Len(obs.trace) :
                   obs.trace[j].call \notin {"connect", "sleep", "select_db"}
C14_Witness ==
    /\ obs.op = "connect" /\ db.attemptMaxNo = MaxRetryCount + 1
    /\ Len(obs.trace) >= 3
    /\ obs.trace[1].call = "connect" /\ obs.trace[1].code = CR_CONN_HOST
    /\ obs.trace[2].call = "sleep"
    /\ FatalAt(obs, 3)
    /\ Raised(obs, SERVER_CONNECT)

(* C15: every DbException SERVER_CONNECT raised by connect() of              *)
(* lsst.db.db.Db carries the driver error of the failed attempt as its      *)
(* message.                                                                 *)
C15_ConnectFailureKeepsDetail ==
    (obs.op = "connect" /\ Raised(obs, SERVER_CONNECT))
      => /\ obs.exc.detail # 0
         /\ \E i \in 1..Len(obs.trace) : obs.trace[i].code = obs.exc.detail

(* C16: in a connectToMySQLServer() call of a lsst.dbserv.db.Db instance     *)
(* with a socket, a host:port and maxRetryCount = 0, a failed socket        *)
(* attempt is followed at once by a host:port attempt, and when that one    *)
(* succeeds the call returns connected, with no further attempt.            *)
C16_TransportFallback ==
    [][(/\ obs'.op = "connectToMySQLServer"
        /\ sdb.socket /\ sdb.hostPort /\ sdb.maxRetryCount = 0
        /\ obs'.trace # <<>>
        /\ obs'.trace[1].call = "connect_socket" /\ obs'.trace[1].code # 0)
         => /\ Len(obs'.trace) >= 2
            /\ obs'.trace[2].call = "connect_port"
            /\ obs'.trace[2].code = 0
                 => /\ Len(obs'.trace) = 2
                    /\ Returned(obs')
                    /\ dbserv_checkIsConnected([sdb |-> sdb'])
                    /\ sdb'.conn.alive]_vars
C16_Witness ==
    /\ obs.op = "connectToMySQLServer"
    /\ sdb.socket /\ sdb.hostPort /\ sdb.maxRetryCount = 0
    /\ Len(obs.trace) = 2
    /\ obs.trace[1].call = "connect_socket" /\ obs.trace[1].code # 0
    /\ obs.trace[2].call = "connect_port" /\ obs.trace[2].code = 0
    /\ Returned(obs) /\ ~sdb.conn.none

(* C17: in one connectToMySQLServer() call of lsst.dbserv.db.Db a failed     *)
(* socket attempt is followed by a host:port attempt at most once.          *)
Fallbacks(o) ==
    {i \in 1..(Len(o.trace) - 1) :
       /\ o.trace[i].call = "connect_socket" /\ o.trace[i].code # 0
       /\ o.trace[i + 1].call = "connect_port"}
C17_FallbackOnce ==
    obs.op = "connectToMySQLServer" => Cardinality(Fallbacks(obs)) <= 1

(* C18: connect(dbName) on a lsst.db.db.Db instance that is connected opens  *)
(* no new driver connection, and leaves dbName the current database when    *)
(* dbName is given, exists and is not the current one.                      *)
C18_ConnectSelectsDb ==
    [][(obs'.op = "connect" /\ IsConnected(db) /\ db.conn.alive)
         => /\ Events(obs', "connect") = {}
            /\ (obs'.args.db \in srv.dbs /\ obs'.args.db # db.conn.sel)
                 => Current(db', obs'.args.db)]_vars

(* C19: checkIsConnected() of lsst.db.db.Db is True only when the session    *)
(* holds a handle that is live, and when it is False the session holds no   *)
(* handle.                                                                  *)
C19_LivenessCheck ==
    /\ checkIsConnected([db |-> db]) => ~db.conn.none /\ db.conn.alive
    /\ ~checkIsConnected([db |-> db]) => db.conn.none

(* C20: no instance of either class has TCP as its selected transport (the   *)
(* transport __init__ chose in lsst.db.db.Db; no socket in                  *)
(* lsst.dbserv.db.Db) and a port outside [1, 65535], and constructing one   *)
(* with TCP selected and such a port raises DbException MISSING_CON_INFO    *)
(* (ERR_MISSING_CON_INFO) with no driver call made.                         *)
InRange(p) == p.given /\ 1 <= p.value /\ p.value <= 65535
ConnectCalls == {"connect", "connect_port", "connect_socket"}
HostOpts(argv) == {argv[j].value : j \in {k \in 1..Len(argv) : argv[k].name = "--host"}}
C21_LocalhostRewrite ==
    [][/\ \A i \in 1..Len(obs'.trace) :
            LET e == obs'.trace[i]
            IN  /\ e.call \in ConnectCalls => e.cmd.host # localhost
                /\ e.call = "connect" =>
                     e.cmd.host = db'.kwargs.host /\ db'.kwargs = db.kwargs
                /\ e.call = "connect_port" => e.cmd.host = sdb'.host /\ sdb'.host = sdb.host
                /\ e.call = "subprocess.call" => localhost \notin HostOpts(e.cmd.argv)
       /\ (obs'.op = "Db.__init__" /\ Returned(obs') /\ db'.connProt = "tcp") =>
            /\ db'.kwargs.host # localhost
            /\ (obs'.args.host = localhost /\ obs'.args.port.given)
                 => db'.kwargs.host = loopback
            /\ (obs'.args.host = None /\ obs'.args.optionFile.host = localhost)
                 => db'.kwargs.host = loopback
       /\ (obs'.op = "dbserv.Db.__init__" /\ Returned(obs')) =>
            /\ sdb'.host # localhost
            /\ obs'.args.host = localhost => sdb'.host = loopback
            /\ (/\ obs'.args.host = None /\ obs'.args.optionFile.client
                /\ obs'.args.optionFile.host = localhost)
                 => sdb'.host = loopback
       /\ (/\ obs'.op = "loadSqlScript" /\ obs'.args.host = localhost
           /\ Events(obs', "subprocess.call") # {})
            => \A i \in Events(obs', "subprocess.call") :
                  HostOpts(obs'.trace[i].cmd.argv) = {loopback}]_vars
C21_Witness ==
    /\ obs.op = "connect" /\ Returned(obs)
    /\ db.connProt = "tcp"
    /\ \E i \in Events(obs, "connect") : obs.trace[i].cmd.host = loopback

(* C22: the option-file merge of lsst.db.db.Db is per field.  For an         *)
(* instance built with an option file, each of user and password, and each  *)
(* of host, port and socket that belongs to the transport the instance      *)
(* uses, is the value given explicitly when there is one, else the value of *)
(* the option file when the file has one ("localhost" becoming              *)
(* "127.0.0.1").                                                            *)
Unset(v) == v \in {None, Absent}
Merged(explicit, inFile) == IF explicit # None THEN explicit ELSE inFile
SameValue(v, w) == (Unset(v) /\ Unset(w)) \/ v = w
Rewritten(h) == IF h = localhost THEN loopback ELSE h
C22_PerFieldMerge ==
    [][(/\ obs'.op = "Db.__init__" /\ Returned(obs')
        /\ obs'.args.optionFile.given /\ obs'.args.optionFile.client)
        => LET a == obs'.args
               f == a.optionFile
               k == db'.kwargs
           IN  /\ SameValue(k.user, Merged(a.user, f.user))
               /\ SameValue(k.passwd, Merged(a.passwd, f.password))
               /\ db'.connProt = "tcp" =>
                    /\ k.host = Rewritten(Merged(a.host, f.host))
                    /\ k.port = IF a.port.given THEN a.port ELSE Port(int(f.port))
               /\ db'.connProt = "socket" =>
                    k.unix_socket = Merged(a.socket, f.socket)]_vars

(* C23: constructing lsst.db.db.Db with an optionFile that is not a file,   *)
(* or that is a file without the section [client], raises DbException       *)
(* INVALID_OPT_FILE, whatever the other arguments.                          *)
C23_BadOptionFile ==
    [][(/\ obs'.op = "Db.__init__"
        /\ obs'.args.optionFile.given
        /\ ~obs'.args.optionFile.isfile \/ ~obs'.args.optionFile.client)
        => Raised(obs', INVALID_OPT_FILE) /\ ~HasDb']_vars

(* C24: the error classification of lsst.db.db.Db._execCommand is total and  *)
(* closed.  A call of execCommand0/1 whose cursor.execute fails with MySQL   *)
(* error 1007, 1008, 1050 or 1051 raises DbException DB_EXISTS,              *)
(* DB_DOES_NOT_EXIST, TB_EXISTS or TB_DOES_NOT_EXIST, with any other error   *)
(* it raises SERVER_ERROR, and the call never ends with an exception of the  *)
(* driver or with an error code that is not one of DbException's.            *)
ExecOps == {"execCommand0", "execCommand1"}
DbExceptionCodes ==
    {CANT_CONNECT_TO_DB, DB_EXISTS, DB_DOES_NOT_EXIST, INVALID_DB_NAME, INVALID_OPT_FILE,
     MISSING_CON_INFO, SERVER_CONNECT, SERVER_DISCONN, SERVER_ERROR, NOT_CONNECTED,
     TB_DOES_NOT_EXIST, TB_EXISTS, INTERNAL}
Classified(code) ==
    IF code = 1007 THEN DB_EXISTS
    ELSE IF code = 1008 THEN DB_DOES_NOT_EXIST
    ELSE IF code = 1050 THEN TB_EXISTS
    ELSE IF code = 1051 THEN TB_DOES_NOT_EXIST
    ELSE SERVER_ERROR
C24_Classification ==
    [][obs'.op \in ExecOps =>
         /\ obs'.exc.kind \in {"none", "DbException"}
         /\ obs'.exc.kind = "DbException" => obs'.exc.code \in DbExceptionCodes
         /\ \A i \in Events(obs', "execute") :
               obs'.trace[i].code # 0 =>
                 i = Len(obs'.trace) /\ Raised(obs', Classified(obs'.trace[i].code))]_vars
C24_Witness ==
    /\ obs.op = "execCommand0" /\ Raised(obs, SERVER_ERROR)
    /\ LastCall(obs) = "execute"
    /\ obs.trace[Len(obs.trace)].code = ER_BAD_DB

(* C25: a call of execCommand0/1 of lsst.db.db.Db whose ping fails with an  *)
(* error that is not connection-class raises a DbException, and runs no     *)
(* command after that ping.                                                 *)
C25_PingErrorPropagates ==
    [][obs'.op \in ExecOps =>
         \A i \in Events(obs', "ping") :
            (obs'.trace[i].code # 0 /\ obs'.trace[i].code \notin ConnectionClass)
              => /\ obs'.exc.kind = "DbException"
                 /\ \A j \in Events(obs', "execute") : j < i]_vars

(* C26: addConn(name, ...) for a name already in the pool raises            *)
(* DbPoolException ENTRY_EXISTS and changes nothing in the pool; for a name *)
(* not in the pool it returns and adds one entry, with the checkFreq and    *)
(* the keyword arguments given, never checked and with no Db object yet,    *)
(* and changes no other entry.                                              *)
PoolRaised(o, code) == o.exc.kind = "DbPoolException" /\ o.exc.code = code
OthersKept(n) == \A x \in PoolNames \ {n} : pool'[x] = pool[x]
C26_AddConnRejectsDuplicates ==
    [][obs'.op = "addConn" =>
         LET n == obs'.args.name
         IN  IF pool[n].present
             THEN PoolRaised(obs', ENTRY_EXISTS) /\ pool' = pool
             ELSE /\ Returned(obs')
                  /\ pool'[n].present
                  /\ pool'[n].checkFreq = obs'.args.checkFreq
                  /\ pool'[n].kwargs = obs'.args.kwargs
                  /\ pool'[n].lastChecked = 0
                  /\ pool'[n].dbObj.attemptMaxNo = 0
                  /\ OthersKept(n)]_vars
C26_Witness ==
    /\ obs.op = "addConn" /\ PoolRaised(obs, ENTRY_EXISTS)
    /\ pool[obs.args.name].present
    /\ pool[obs.args.name].dbObj.attemptMaxNo > 0
    /\ pool[obs.args.name].checkFreq # obs.args.checkFreq

C28_StalenessCheck ==
    [][(/\ obs'.op = "getConn" /\ srv.up
        /\ pool[obs'.args.name].present
        /\ pool[obs'.args.name].checkFreq # -1
        /\ pool[obs'.args.name].kwargs.user # None
        /\ \/ now - pool[obs'.args.name].lastChecked > pool[obs'.args.name].checkFreq
           \/ pool[obs'.args.name].lastChecked = 0)
        => /\ Returned(obs')
           /\ IsConnected(pool'[obs'.args.name].dbObj)
           /\ pool'[obs'.args.name].lastChecked = now]_vars

(* C29: testHelper.loadSqlScript rejects a password.  Called with a passwd  *)
(* keyword it raises PasswordNotAllowedError without having started the     *)
(* mysql client, whatever its other arguments and whether or not the script *)
(* exists; and no argument vector it hands to subprocess.call holds a       *)
(* --password option.                                                       *)
PasswordOpts(argv) == {k \in 1..Len(argv) : argv[k].name = "--password"}
C29_PasswordRejected ==
    [][obs'.op = "loadSqlScript" =>
         /\ obs'.args.passwd # Absent =>
              /\ obs'.exc.kind = "PasswordNotAllowedError"
              /\ obs'.trace = <<>>
              /\ srv' = srv
         /\ \A i \in Events(obs', "subprocess.call") :
              PasswordOpts(obs'.trace[i].cmd.argv) = {}]_vars
C29_Witness ==
    /\ obs.op = "loadSqlScript"
    /\ obs.args.passwd = "p" /\ obs.args.scriptIsFile /\ obs.args.host = "h"
    /\ obs.exc.kind = "PasswordNotAllowedError"
    /\ Events(obs, "subprocess.call") = {}

(* C30: createDb does not touch the database context of the session.  A    *)
(* createDb(X) that returns has left the instance connected to the server; *)
(* whatever its outcome, no database is selected after it that was not      *)
(* selected before it, a database selected on a live session stays          *)
(* selected, the default database name of lsst.dbserv.db.Db is the one it  *)
(* was, and checkIsConnectedToDb(x) is true after it only if it was true   *)
(* before it.                                                              *)
ConnectedToDb(d, x) == checkIsConnectedToDb([sdb |-> d], x)
Selected(d, x) == ~d.conn.none /\ d.conn.alive /\ d.conn.sel = x
C30_CreateDbKeepsContext ==
    [][/\ (obs'.op = "createDb" /\ obs'.args.db \in DbNames) =>
            /\ Returned(obs') => IsConnected(db')
            /\ db'.isConnectedToDb => db.isConnectedToDb
            /\ \A x \in DbNames :
                 /\ Current(db', x) => Current(db, x)
                 /\ (Current(db, x) /\ Returned(obs')) => Current(db', x)
       /\ (obs'.op = "dbserv.createDb" /\ obs'.args.db \in DbNames
           /\ (sdb.conn.none \/ sdb.conn.alive)) =>
            /\ Returned(obs') => dbserv_checkIsConnected([sdb |-> sdb'])
            /\ sdb'.defaultDbName = sdb.defaultDbName
            /\ \A x \in DbNames :
                 /\ ConnectedToDb(sdb', x) => ConnectedToDb(sdb, x)
                 /\ Selected(sdb', x) => Selected(sdb, x)
                 /\ (Selected(sdb, x) /\ Returned(obs')) => Selected(sdb', x)]_vars

C30_Witness ==
    /\ obs.op = "dbserv.createDb" /\ Returned(obs) /\ obs.args.db = "B"
    /\ "B" \in srv.dbs
    /\ ConnectedToDb(sdb, "A") /\ Selected(sdb, "A")
    /\ ~ConnectedToDb(sdb, "B")

(* C31: every connect() call of lsst.db.db.Db has the whole retry budget.  *)
(* The attempt counter is 1 when a caller calls connect(), and a connect()  *)
(* call every driver connect attempt of which fails with a connection-class *)
(* code makes 1 + maxRetryCount attempts before it raises DbException       *)
(* SERVER_CONNECT, also when an earlier connect() call of the instance      *)
(* ended by raising SERVER_CONNECT.                                         *)
C31_FullBudgetEveryCall ==
    [][(obs'.op = "connect" /\ ~IsConnected(db))
         => /\ db.attemptNo = 1
            /\ (EveryConnectFails(obs') /\ Events(obs', "connect") # {})
                 => /\ Cardinality(Events(obs', "connect")) = db.attemptMaxNo
                    /\ Raised(obs', SERVER_CONNECT)]_vars

(* C32: connectToMySQLServer() of lsst.dbserv.db.Db ends connected or with   *)
(* a DbException.  A call that returns leaves checkIsConnected() true, and  *)
(* a call that does not return raises DbException, whatever calls came       *)
(* before it.                                                                *)
C32_ConnectedOrRaises ==
    obs.op = "connectToMySQLServer"
      => IF Returned(obs) THEN dbserv_checkIsConnected([sdb |-> sdb])
         ELSE obs.exc.kind = "DbException"

(* C33: connect() of lsst.db.db.Db terminates.  The attempt number of an    *)
(* instance stays between 1 and 1 + maxRetryCount; a connect() call makes   *)
(* no more driver connect attempts than are left from the attempt number it *)
(* starts with, with one sleep between two attempts, and it ends either by  *)
(* returning with the instance connected or by raising a DbException.       *)
C33_ConnectTerminates ==
    [][obs'.op = "connect"
         => /\ 1 <= db'.attemptNo /\ db'.attemptNo <= db'.attemptMaxNo
            /\ Cardinality(Events(obs', "connect")) <= db.attemptMaxNo - db.attemptNo + 1
            /\ Cardinality(Events(obs', "sleep")) < db.attemptMaxNo
            /\ IF Returned(obs') THEN IsConnected(db')
               ELSE obs'.exc.kind = "DbException" /\ ~IsConnected(db')]_vars
C33_Witness ==
    /\ obs.op = "connect" /\ Returned(obs) /\ IsConnected(db)
    /\ db.attemptMaxNo = MaxRetryCount + 1
    /\ Cardinality(Events(obs, "connect")) = MaxRetryCount + 1
    /\ Cardinality(Events(obs, "sleep")) = MaxRetryCount

(* C34: no handle is leaked.  The driver connections that are open are      *)
(* exactly the session handles the instances hold: at most one for an       *)
(* instance, and none that a call opened and did not keep.                  *)
Handles(d) == IF d.conn.none THEN 0 ELSE 1
Opened(o, k) == {i \in 1..k : o.trace[i].call \in ConnectCalls /\ o.trace[i].code = 0}
Closed(o, k) == {i \in 1..k : o.trace[i].call = "close"}
C34_NoHandleLeak ==
    [][/\ srv'.open = Handles(db') + Handles(sdb')
       /\ srv'.open <= 1
       /\ \A k \in 0..Len(obs'.trace) :
            srv.open + Cardinality(Opened(obs', k)) - Cardinality(Closed(obs', k)) \in {0, 1}]_vars
C34_Witness ==
    /\ obs.op = "connect" /\ obs.args.db \in DbNames \ srv.dbs
    /\ Raised(obs, SERVER_CONNECT)
    /\ Len(obs.trace) = 3
    /\ obs.trace[1].call = "connect" /\ obs.trace[1].code = 0
    /\ obs.trace[2].call = "select_db" /\ obs.trace[2].code # 0
    /\ obs.trace[3].call = "close"
    /\ srv.open = 0 /\ db.conn.none

(* C35: an instance of lsst.db.db.Db has exactly one transport.  The        *)
(* connection arguments of a constructed instance hold host together with  *)
(* port, or unix_socket, never both and never neither, and the transport    *)
(* recorded is the one they hold.                                           *)
HasTcp(k) == k.host # Absent /\ k.port.given
HasSocket(k) == k.unix_socket # Absent
C35_OneTransport ==
    HasDb => /\ HasTcp(db.kwargs) # HasSocket(db.kwargs)
             /\ (db.kwargs.host # Absent) = db.kwargs.port.given
             /\ db.connProt = (IF HasTcp(db.kwargs) THEN "tcp" ELSE "socket")
C35_Witness ==
    /\ obs.op = "Db.__init__" /\ Returned(obs) /\ HasDb
    /\ obs.args.host = "h" /\ obs.args.port.given /\ obs.args.socket = "s"
    /\ obs.args.preferTcp
    /\ obs.args.optionFile.given /\ obs.args.optionFile.client
    /\ obs.args.optionFile.socket # Absent /\ obs.args.optionFile.host # Absent
    /\ HasTcp(db.kwargs) /\ ~HasSocket(db.kwargs)

(* C36: a failed selection changes nothing.  With the server up and a live  *)
(* session that has database x selected, useDb(name) (connectToDb(name) in  *)
(* lsst.dbserv.db.Db) for a database that does not exist raises DbException *)
(* CANT_CONNECT_TO_DB, leaves the handle, the selection x and the server as *)
(* they were, and a createTable with no dbName that follows it creates its  *)
(* table in x.                                                              *)
C36_FailedSelectionKeepsSession ==
    [][/\ (/\ obs'.op = "useDb" /\ srv.up /\ obs'.args.db \notin srv.dbs
           /\ \E x \in DbNames : Current(db, x))
          => /\ Raised(obs', CANT_CONNECT_TO_DB)
             /\ db'.conn = db.conn /\ IsConnected(db')
             /\ srv' = srv
       /\ (/\ obs'.op = "connectToDb" /\ srv.up /\ obs'.args.db \in DbNames \ srv.dbs
           /\ \E x \in DbNames : Selected(sdb, x) /\ ConnectedToDb(sdb, x))
          => /\ Raised(obs', ERR_CANT_CONNECT_TO_DB)
             /\ sdb' = sdb
             /\ srv' = srv
       /\ (/\ obs.op = "useDb" /\ Raised(obs, CANT_CONNECT_TO_DB)
           /\ obs'.op = "createTable" /\ obs'.args.db = None /\ srv.up)
          => \A x \in DbNames : Current(db, x) =>
               /\ Targets(obs') = {x}
               /\ <<x, obs'.args.tb>> \in srv'.tables]_vars
C36_Witness ==
    /\ obs.op = "createTable" /\ obs.args.db = None /\ Returned(obs)
    /\ obs.prev = [op |-> "useDb", ok |-> FALSE]
    /\ Targets(obs) = {"A"} /\ Current(db, "A")
    /\ <<"A", "t">> \in srv.tables

(* C37: dropping another database leaves the session as it is.  With the    *)
(* server up and a live session that has database x selected, dropDb(y) for *)
(* y other than x, whether y exists or not, leaves the handle open with x   *)
(* selected (and in lsst.dbserv.db.Db the default database x), x stays on   *)
(* the server with its tables, and a createTable with no dbName that        *)
(* follows it creates its table in x.                                       *)
C37_DropOtherKeepsSession ==
    [][/\ (obs'.op = "dropDb" /\ srv.up /\ obs'.args.db \in DbNames)
          => \A x \in DbNames \ {obs'.args.db} : Current(db, x) =>
               /\ db'.conn = db.conn /\ Current(db', x)
               /\ db'.isConnectedToDb = db.isConnectedToDb
               /\ x \in srv'.dbs
               /\ \A t \in TbNames : (<<x, t>> \in srv'.tables) = (<<x, t>> \in srv.tables)
       /\ (obs'.op = "dbserv.dropDb" /\ srv.up /\ obs'.args.db \in DbNames)
          => \A x \in DbNames \ {obs'.args.db} :
               (Selected(sdb, x) /\ ConnectedToDb(sdb, x)) =>
                 /\ sdb' = sdb
                 /\ x \in srv'.dbs
       /\ (/\ obs.op = "dropDb" /\ Returned(obs) /\ obs.args.db \in DbNames
           /\ obs'.op = "createTable" /\ obs'.args.db = None /\ srv.up)
          => \A x \in DbNames \ {obs.args.db} : Current(db, x) =>
               /\ Targets(obs') = {x}
               /\ <<x, obs'.args.tb>> \in srv'.tables]_vars
C37_Witness ==
    /\ obs.op = "dropDb" /\ obs.args.db = "B" /\ Returned(obs)
    /\ \E i \in Events(obs, "execute") :
         obs.trace[i].cmd.kind = "DROP DATABASE" /\ obs.trace[i].code = 0
    /\ Current(db, "A") /\ db.isConnectedToDb
    /\ <<"A", "t">> \in srv.tables

(* C38: the pool gives out one Db object for a name.  A getConn(name) on an *)
(* entry whose Db object exists leaves that object in the entry, with the   *)
(* arguments it was built from and the connection it holds, and returns it  *)
(* when it returns; a getConn(name) that returns on an entry without one     *)
(* has built it; and no other call builds the object of an entry.           *)
Built(e) == e.present /\ e.dbObj.attemptMaxNo > 0
SameObject(a, b) ==
    /\ a.attemptMaxNo = b.attemptMaxNo /\ a.kwargs = b.kwargs /\ a.connProt = b.connProt
    /\ (IsConnected(b) /\ b.conn.alive) => a.conn = b.conn
Due(e, t) == e.checkFreq # -1 /\ t - e.lastChecked > e.checkFreq
C39_ProbeRate ==
    [][/\ (/\ obs'.op = "getConn" /\ Built(pool[obs'.args.name])
           /\ ~Due(pool[obs'.args.name], now))
          => /\ Returned(obs') /\ obs'.trace = <<>>
             /\ pool' = pool /\ srv' = srv
       /\ (obs'.op = "getConn" /\ ~Built(pool[obs'.args.name]))
          => obs'.trace = <<>> /\ srv' = srv
       /\ \A x \in PoolNames :
            (pool[x].present /\ pool'[x].present /\ pool'[x].lastChecked # pool[x].lastChecked)
              => /\ obs'.op = "getConn" /\ obs'.args.name = x /\ Returned(obs')
                 /\ Built(pool[x]) /\ Due(pool[x], now)
                 /\ pool'[x].lastChecked = now]_vars
C39_Witness ==
    /\ obs.op = "getConn" /\ Returned(obs) /\ obs.trace = <<>>
    /\ obs.prev = [op |-> "serverStop", ok |-> TRUE]
    /\ Built(pool[obs.args.name])
    /\ pool[obs.args.name].checkFreq = Epoch + MaxTicks
    /\ now = Epoch + MaxTicks
    /\ ~pool[obs.args.name].dbObj.conn.none /\ ~pool[obs.args.name].dbObj.conn.alive

(* C40: with the server up and the instance able to reach it,               *)
(* dropTable(t, db) of lsst.dbserv.db.Db on a table that exists returns and *)
(* leaves no table t in db, and on a table that does not exist raises        *)
(* DbException ERR_TB_DOES_NOT_EXIST and leaves the databases, tables and   *)
(* views of the server as they were.                                        *)
C40_DropTable ==
    [][(/\ obs'.op = "dbserv.dropTable" /\ obs'.args.db \in DbNames
        /\ srv.up /\ CanReach(sdb))
         => IF <<obs'.args.db, obs'.args.tb>> \in srv.tables
            THEN Returned(obs') /\ <<obs'.args.db, obs'.args.tb>> \notin srv'.tables
            ELSE /\ Raised(obs', ERR_TB_DOES_NOT_EXIST)
                 /\ srv'.dbs = srv.dbs /\ srv'.tables = srv.tables
                 /\ srv'.views = srv.views]_vars

====
